---------------------------- MODULE Spec2Model ----------------------------
(***************************************************************************)
(* peakTree: construction of the peak tree of one Doppler spectrum         *)
(* (tree_from_spectrum), its traversal and level-order ids, the packing of *)
(* one (time, range) cell by assemble_time_height and the reload of that   *)
(* cell by get_tree_at in 'peakTree' mode.                                 *)
(*                                                                         *)
(* Arrays are sequences; the source's zero-based bin index i is position   *)
(* i + 1 of the sequence.  Bounds, minima and ids keep the source's        *)
(* zero-based values.  Reflectivities are integers (linear units).         *)
(***************************************************************************)
EXTENDS Integers, Sequences, FiniteSets, TLC

VARIABLES
    pc,          \* position in the pipeline of the cell
    specZ,       \* spectrum['specZ']
    specZ_mask,  \* spectrum['specZ_mask']
    noise_thres, \* spectrum['noise_thres']
    peak_ind,    \* tree_from_spectrum: peak_ind after the single-bin filter
    t,           \* tree_from_spectrum: the root Node (NoTree before it exists)
    pairs,       \* peak pairs still to be yielded by peak_pairs_to_call
    minima,      \* minima still to be visited by the loop over get_minima
    hist,        \* history: the splits inserted so far, in order
    raised,      \* TRUE once add_min raised ValueError
    traversed,   \* the id-keyed traversed tree returned by tree_from_spectrum
    no_nodes,    \* assemble_time_height: no_nodes[it, ir]
    Z,           \* assemble_time_height: Z[it, ir, :]
    bound_l,     \* assemble_time_height: bound_l[it, ir, :]
    bound_r,     \* assemble_time_height: bound_r[it, ir, :]
    parent,      \* assemble_time_height: parent[it, ir, :]
    thres,       \* assemble_time_height: thres[it, ir, :]
    travtree,    \* get_tree_at ('peakTree'): the tree rebuilt from the arrays
    coord,       \* full_tree_id: the argument
    idx,         \* full_tree_id: the result (-1 before the call)
    timestamps,  \* peakTreeBuffer.timestamps of the loaded spectra file
    grid_time,   \* settings['grid_time']
    time_grid,   \* assemble_time_height: the rows of get_time_grid
    request,     \* get_tree_at: sel_ts and temporal_average of the last call
    window,      \* get_tree_at: the time indices whose spectra were averaged
    rejected,    \* get_tree_at: TRUE when an assertion of the last call failed
    cell_spectrum, \* the spectrum get_tree_at prepares for each cell (it, ir)
    todo,        \* assemble_time_height: the cells not yet processed
    out,         \* assemble_time_height: the output arrays over all cells
    settings_LDR, \* settings['LDR?'] of the campaign
    file_Z,      \* f.variables['Z'][:, ir, :] of the spectra file, by time step
    file_LDR,    \* f.variables['LDR'][:, ir, :], or NoVariable
    file_SNRco,  \* f.variables['SNRco'][:, ir, :]
    ldr_call,    \* get_tree_at ('spec'): it and temporal_average of the call
    spectrum,    \* get_tree_at ('spec'): the spectrum dictionary it prepares
    moments      \* tree_from_spectrum: ldr and ldrmax of every node id

\* The variables of the tree of one cell.
treeVars == <<specZ, specZ_mask, noise_thres, peak_ind, t, pairs, minima, hist,
              raised, traversed, no_nodes, Z, bound_l, bound_r, parent, thres,
              travtree>>

\* The variables of the time grid and of the averaging window.
gridVars == <<timestamps, grid_time, time_grid, request, window, rejected>>

\* The variables of the (time, range) grid of cells.
cellVars == <<cell_spectrum, todo, out>>

\* The variables of get_tree_at in 'spec' mode with the cross channel.
ldrVars == <<settings_LDR, file_Z, file_LDR, file_SNRco, ldr_call, spectrum,
             moments>>

\* The variables outside the tree of one cell and full_tree_id.
extVars == <<gridVars, cellVars, ldrVars>>

vars == <<pc, treeVars, coord, idx, extVars>>

-----------------------------------------------------------------------------
(* Generic helpers *)

Min2(a, b) == IF a <= b THEN a ELSE b

Max2(a, b) == IF a >= b THEN a ELSE b

RECURSIVE Pow2(_)
Pow2(n) == IF n <= 0 THEN 1 ELSE 2 * Pow2(n - 1)

\* The elements of a finite set of integers in ascending order.
RECURSIVE SortedSeq(_)
SortedSeq(S) ==
    IF S = {} THEN << >>
    ELSE LET m == CHOOSE x \in S : \A y \in S : x <= y
         IN  <<m>> \o SortedSeq(S \ {m})

RECURSIVE SeqSum(_)
SeqSum(s) == IF s = << >> THEN 0 ELSE Head(s) + SeqSum(Tail(s))

\* array[array.argmax()]: the largest element (the array is not empty).
SeqMax(s) == CHOOSE x \in {s[i] : i \in 1..Len(s)} : \A i \in 1..Len(s) : s[i] <= x

\* Python's s[a:b] for integers a, b (negative values count from the end).
PySlice(s, a, b) ==
    LET n  == Len(s)
        lo == IF a < 0 THEN Max2(a + n, 0) ELSE Min2(a, n)
        hi == IF b < 0 THEN Max2(b + n, 0) ELSE Min2(b, n)
    IN  SubSeq(s, lo + 1, hi)

\* Python's s[a:].
PySliceFrom(s, a) == PySlice(s, a, Len(s))

\* helpers.fill_with(array, mask, fill): array with the masked entries replaced.
fill_with(array, mask, fill) ==
    [i \in 1..Len(array) |-> IF mask[i] THEN fill ELSE array[i]]

\* r / den > 0.d1 d2 ... for the decimal digits ds, by long division
\* (0 <= r < den).
RECURSIVE fraction_gt(_, _, _)
fraction_gt(r, den, ds) ==
    IF ds = << >> THEN r > 0
    ELSE LET d == (r * 10) \div den
         IN  IF d > Head(ds) THEN TRUE
             ELSE IF d < Head(ds) THEN FALSE
             ELSE fraction_gt((r * 10) % den, den, Tail(ds))

\* floor(m * 0.g1 g2 ...) for the groups gs of four decimal digits each
\* (0 <= m <= 200000).
RECURSIVE floor_times_fraction(_, _)
floor_times_fraction(m, gs) ==
    IF gs = << >> THEN 0
    ELSE (m * Head(gs) + floor_times_fraction(m, Tail(gs))) \div 10000

\* helpers.lin2z(num / den) > dB for dB = 1: 10 * log10(num / den) > 1.0, that
\* is num / den > 10^(1/10) = 1.25892541179416721042..., tested against the
\* first twenty decimals.  The float test 10 * log10(num / den) > 1.0 has the
\* same result for every denominator below 2000000.  A quotient that is not
\* positive has no logarithm above 1 (log10 gives nan or -inf, and a
\* comparison with nan is False); the quotient of a positive number and 0 is
\* inf, of any other number and 0 nan or -inf.
lin2z_gt_1dB(num, den) ==
    LET n == IF num < 0 THEN -num ELSE num
        d == IF den < 0 THEN -den ELSE den
    IN  IF den = 0 THEN num > 0
        ELSE IF num = 0 \/ (num < 0) # (den < 0) THEN FALSE
        ELSE \/ n \div d >= 2
             \/ /\ n \div d = 1
                /\ fraction_gt(n % d, d,
                               <<2, 5, 8, 9, 2, 5, 4, 1, 1, 7,
                                 9, 4, 1, 6, 7, 2, 1, 0, 4, 2>>)

\* The prominence gate of Node: h.lin2z(prom) > self.prom_filter.
prom_filter == 1

prom_passes(maxv, thr) ==
    IF prom_filter = 1 THEN lin2z_gt_1dB(maxv, thr) ELSE FALSE

\* The largest power of two that is not above n (n >= 1).
RECURSIVE Pow2Floor(_)
Pow2Floor(n) == IF n < 2 THEN 1 ELSE 2 * Pow2Floor(n \div 2)

\* The float product thr * 1.1 of a positive integer thr lies above the
\* integer 11 * thr / 10.  The double 1.1 is 11/10 + 0.4 * 2^-52, so the
\* product of thr = 10 * k is 11 * k + 4 * k * 2^-52 before rounding, and it
\* is rounded up when that excess is more than half the spacing of the doubles
\* at 11 * k (a tie is rounded to 11 * k).
product_1p1_rounds_up(thr) ==
    /\ thr > 0
    /\ thr % 10 = 0
    /\ 8 * (thr \div 10) > Pow2Floor(11 * (thr \div 10))

\* x > thr * 1.1, and x < thr * 1.1, for integers x and thr and the float
\* product thr * 1.1.  The product of a negative thr is the negative of the
\* product of -thr: where that one lies above 11 * (-thr) / 10, this one lies
\* below 11 * thr / 10, and x = 11 * thr / 10 is above it.
gt_1p1(x, thr) ==
    \/ 10 * x > 11 * thr
    \/ 10 * x = 11 * thr /\ thr < 0 /\ product_1p1_rounds_up(-thr)

lt_1p1(x, thr) ==
    \/ 10 * x < 11 * thr
    \/ 10 * x = 11 * thr /\ thr > 0 /\ product_1p1_rounds_up(thr)

-----------------------------------------------------------------------------
(* detect_peak_simple, get_minima, split_peak_ind_by_space, peak_pairs_to_call *)

\* np.where(array > lthres)[0].tolist()
where_gt(array, lthres) ==
    SortedSeq({i \in 0..(Len(array) - 1) : array[i + 1] > lthres})

\* detect_peak_simple cutting only where the neighbours are more than two bins
\* apart.
detect_peak_simple_wide_jumps(array, lthres) ==
    LET ind   == where_gt(array, lthres)
        jumps == SortedSeq({p \in 0..(Len(ind) - 2) : ind[p + 2] - ind[p + 1] > 2})
        starts == <<0>> \o [k \in 1..Len(jumps) |-> jumps[k] + 1]
        stop(k) == IF k < Len(starts) THEN starts[k + 1] - 1 ELSE Len(ind) - 1
    IN  IF Len(ind) > 0
        THEN [k \in 1..Len(starts) |-> <<ind[starts[k] + 1], ind[stop(k) + 1]>>]
        ELSE << >>

detect_peak_simple(array, lthres) ==
    LET ind   == where_gt(array, lthres)
        \* ind.index(x) for the neighbours x, y of ind with y - x != 1
        jumps == SortedSeq({p \in 0..(Len(ind) - 2) : ind[p + 2] - ind[p + 1] # 1})
        \* np.split(ind, [i + 1 for i in jumps]): run k starts at cut k - 1
        starts == <<0>> \o [k \in 1..Len(jumps) |-> jumps[k] + 1]
        stop(k) == IF k < Len(starts) THEN starts[k + 1] - 1 ELSE Len(ind) - 1
    IN  IF Len(ind) > 0
        THEN [k \in 1..Len(starts) |-> <<ind[starts[k] + 1], ind[stop(k) + 1]>>]
        ELSE << >>

sign(x) == IF x > 0 THEN 1 ELSE IF x < 0 THEN -1 ELSE 0

\* sorted(minima, key=value): ascending by value, ties in index order (stable).
RECURSIVE SortMinima(_)
SortMinima(S) ==
    IF S = {} THEN << >>
    ELSE LET m == CHOOSE x \in S : \A y \in S :
                      x[2] < y[2] \/ (x[2] = y[2] /\ x[1] <= y[1])
         IN  <<m>> \o SortMinima(S \ {m})

\* get_minima with the flat-bottom test at positions i-1 and i.
get_minima_left_bin(array) ==
    LET n        == Len(array)
        d(p)     == array[p + 2] - array[p + 1]
        sdiff(p) == sign(d(p + 1)) - sign(d(p))
        rising_1(j) == sdiff(j) = 2
        rising_2(k) == sdiff(k) = 1 /\ sdiff(k + 1) = 1
        rising_all(j) == rising_1(j) \/ (j <= n - 4 /\ rising_2(j))
        min_ind  == {j + 1 : j \in {j \in 0..(n - 3) : rising_all(j)}}
    IN  SortMinima({<<i, array[i + 1]>> : i \in min_ind})

get_minima(array) ==
    LET n        == Len(array)
        d(p)     == array[p + 2] - array[p + 1]            \* np.diff, p in 0..n-2
        sdiff(p) == sign(d(p + 1)) - sign(d(p))            \* p in 0..n-3
        rising_1(j) == sdiff(j) = 2
        rising_2(k) == sdiff(k) = 1 /\ sdiff(k + 1) = 1    \* k in 0..n-4
        rising_all(j) == rising_1(j) \/ (j >= 1 /\ rising_2(j - 1))
        min_ind  == {j + 1 : j \in {j \in 0..(n - 3) : rising_all(j)}}
    IN  SortMinima({<<i, array[i + 1]>> : i \in min_ind})

\* np.argmax: the lowest index of the largest element.
argmax(s) == CHOOSE i \in 0..(Len(s) - 1) :
                 /\ \A j \in 0..(Len(s) - 1) : s[j + 1] <= s[i + 1]
                 /\ \A j \in 0..(i - 1) : s[j + 1] < s[i + 1]

\* split_peak_ind_by_space at the last of the largest gaps.
split_peak_ind_at_last_gap(pk) ==
    IF Len(pk) = 1 THEN <<pk, pk>>
    ELSE LET spacing == [k \in 1..(Len(pk) - 1) |-> pk[k + 1][1] - pk[k][2]]
             split_i == CHOOSE i \in 0..(Len(spacing) - 1) :
                           /\ \A j \in 0..(Len(spacing) - 1) : spacing[j + 1] <= spacing[i + 1]
                           /\ \A j \in (i + 1)..(Len(spacing) - 1) :
                                 spacing[j + 1] < spacing[i + 1]
         IN  <<SubSeq(pk, 1, split_i + 1), SubSeq(pk, split_i + 2, Len(pk))>>

split_peak_ind_by_space(pk) ==
    IF Len(pk) = 1 THEN <<pk, pk>>
    ELSE LET spacing == [k \in 1..(Len(pk) - 1) |-> pk[k + 1][1] - pk[k][2]]
             split_i == argmax(spacing)
         IN  <<SubSeq(pk, 1, split_i + 1), SubSeq(pk, split_i + 2, Len(pk))>>

\* The pairs the generator yields, in the order it yields them.
RECURSIVE peak_pairs_to_call(_)
peak_pairs_to_call(pk) ==
    LET lr    == split_peak_ind_by_space(pk)
        left  == lr[1]
        right == lr[2]
    IN  IF left # right
        THEN <<<<  <<left[1][1], left[Len(left)][2]>>,
                   <<right[1][1], right[Len(right)][2]>>  >>>>
             \o peak_pairs_to_call(left) \o peak_pairs_to_call(right)
        ELSE << >>

-----------------------------------------------------------------------------
(* class Node *)

\* Node.__init__
Node(bounds, spec_chunk, thr, root, parent_lvl) ==
    [bounds      |-> bounds,
     children    |-> << >>,
     level       |-> IF root THEN 0 ELSE parent_lvl + 1,
     root        |-> root,
     threshold   |-> thr,
     spec        |-> spec_chunk,
     prom_filter |-> prom_filter]

\* The children of node that pass the filter of add_noise_sep (positions).
fitting_noise_sep(node, bounds_left, bounds_right) ==
    {i \in 1..Len(node.children) :
        /\ node.children[i].bounds[1] <= bounds_left[1]
        /\ node.children[i].bounds[2] >= bounds_right[2]}

\* insert_noise_sep with a gate that one prominent side passes.
insert_noise_sep_either(node, bounds_left, bounds_right, thr) ==
    LET spec_left  == PySlice(node.spec, bounds_left[1] - node.bounds[1],
                                         bounds_left[2] + 1 - node.bounds[1])
        spec_right == PySlice(node.spec, bounds_right[1] - node.bounds[1],
                                         bounds_right[2] + 1 - node.bounds[1])
    IN  IF prom_passes(SeqMax(spec_left), thr) \/ prom_passes(SeqMax(spec_right), thr)
        THEN [node EXCEPT !.children =
                 Append(Append(@, Node(bounds_left, spec_left, thr, FALSE, node.level)),
                        Node(bounds_right, spec_right, thr, FALSE, node.level))]
        ELSE node

\* The else branch of add_noise_sep: insert at this node, if prominent.
insert_noise_sep(node, bounds_left, bounds_right, thr) ==
    LET spec_left  == PySlice(node.spec, bounds_left[1] - node.bounds[1],
                                         bounds_left[2] + 1 - node.bounds[1])
        spec_right == PySlice(node.spec, bounds_right[1] - node.bounds[1],
                                         bounds_right[2] + 1 - node.bounds[1])
    IN  IF prom_passes(SeqMax(spec_left), thr) /\ prom_passes(SeqMax(spec_right), thr)
        THEN [node EXCEPT !.children =
                 Append(Append(@, Node(bounds_left, spec_left, thr, FALSE, node.level)),
                        Node(bounds_right, spec_right, thr, FALSE, node.level))]
        ELSE node

RECURSIVE add_noise_sep(_, _, _, _)
add_noise_sep(node, bounds_left, bounds_right, thr) ==
    LET fitting_child == fitting_noise_sep(node, bounds_left, bounds_right)
    IN  IF Cardinality(fitting_child) = 1
        THEN LET i == CHOOSE i \in fitting_child : TRUE
             IN  [node EXCEPT !.children[i] =
                      add_noise_sep(@, bounds_left, bounds_right, thr)]
        ELSE insert_noise_sep(node, bounds_left, bounds_right, thr)

\* The children of node that pass the filter of add_min (positions).
fitting_min(node, new_index) ==
    {i \in 1..Len(node.children) :
        /\ node.children[i].bounds[1] <= new_index
        /\ node.children[i].bounds[2] >= new_index}

\* insert_min with the right child given the bounds of the node itself.
insert_min_wide(node, new_index, current_thres, ignore_prom) ==
    LET spec_left  == PySlice(node.spec, 0, new_index + 1 - node.bounds[1])
        spec_right == PySliceFrom(node.spec, new_index - node.bounds[1])
        cond_prom  == /\ prom_passes(SeqMax(spec_left), current_thres)
                      /\ prom_passes(SeqMax(spec_right), current_thres)
    IN  IF cond_prom \/ ignore_prom
        THEN [node EXCEPT !.children =
                 Append(Append(@, Node(<<node.bounds[1], new_index>>, spec_left,
                                       current_thres, FALSE, node.level)),
                        Node(<<node.bounds[1], node.bounds[2]>>, spec_right,
                             current_thres, FALSE, node.level))]
        ELSE node

\* insert_min with the children given the threshold of the node itself.
insert_min_node_thres(node, new_index, current_thres, ignore_prom) ==
    LET spec_left  == PySlice(node.spec, 0, new_index + 1 - node.bounds[1])
        spec_right == PySliceFrom(node.spec, new_index - node.bounds[1])
        cond_prom  == /\ prom_passes(SeqMax(spec_left), current_thres)
                      /\ prom_passes(SeqMax(spec_right), current_thres)
    IN  IF cond_prom \/ ignore_prom
        THEN [node EXCEPT !.children =
                 Append(Append(@, Node(<<node.bounds[1], new_index>>, spec_left,
                                       node.threshold, FALSE, node.level)),
                        Node(<<new_index, node.bounds[2]>>, spec_right,
                             node.threshold, FALSE, node.level))]
        ELSE node

\* The else branch of add_min: insert at this node, if prominent or forced.
insert_min(node, new_index, current_thres, ignore_prom) ==
    LET spec_left  == PySlice(node.spec, 0, new_index + 1 - node.bounds[1])
        spec_right == PySliceFrom(node.spec, new_index - node.bounds[1])
        cond_prom  == /\ prom_passes(SeqMax(spec_left), current_thres)
                      /\ prom_passes(SeqMax(spec_right), current_thres)
    IN  IF cond_prom \/ ignore_prom
        THEN [node EXCEPT !.children =
                 Append(Append(@, Node(<<node.bounds[1], new_index>>, spec_left,
                                       current_thres, FALSE, node.level)),
                        Node(<<new_index, node.bounds[2]>>, spec_right,
                             current_thres, FALSE, node.level))]
        ELSE node

\* add_min raises ValueError("child out of parents bounds"), here or in the
\* child it recurses into.
RECURSIVE add_min_raises(_, _)
add_min_raises(node, new_index) ==
    \/ new_index < node.bounds[1]
    \/ new_index > node.bounds[2]
    \/ LET fitting_child == fitting_min(node, new_index)
       IN  /\ Cardinality(fitting_child) = 1
           /\ add_min_raises(node.children[CHOOSE i \in fitting_child : TRUE],
                             new_index)

\* add_min when it does not raise.  The recursive call passes no ignore_prom.
RECURSIVE add_min(_, _, _, _)
add_min(node, new_index, current_thres, ignore_prom) ==
    LET fitting_child == fitting_min(node, new_index)
    IN  IF Cardinality(fitting_child) = 1
        THEN LET i == CHOOSE i \in fitting_child : TRUE
             IN  [node EXCEPT !.children[i] =
                      add_min(@, new_index, current_thres, FALSE)]
        ELSE insert_min(node, new_index, current_thres, ignore_prom)

-----------------------------------------------------------------------------
(* traverse, full_tree_id, coords_to_id *)

\* traverse with the children of a node before the node.
RECURSIVE traverse_children_first(_, _)
RECURSIVE children_first_from(_, _, _)
traverse_children_first(node, coords) ==
    children_first_from(node, coords, 1)
    \o <<[coords |-> coords, bounds |-> node.bounds, thres |-> node.threshold]>>

children_first_from(node, coords, i) ==
    IF i > Len(node.children) THEN << >>
    ELSE traverse_children_first(node.children[i], Append(coords, i - 1))
         \o children_first_from(node, coords, i + 1)

RECURSIVE traverse(_, _)
RECURSIVE traverse_children(_, _, _)
traverse(node, coords) ==
    <<[coords |-> coords, bounds |-> node.bounds, thres |-> node.threshold]>>
    \o traverse_children(node, coords, 1)

\* for i, n in enumerate(Node.children), from child number i - 1 on.
traverse_children(node, coords, i) ==
    IF i > Len(node.children) THEN << >>
    ELSE traverse(node.children[i], Append(coords, i - 1))
         \o traverse_children(node, coords, i + 1)

\* for ind, flag in enumerate(reversed(coord)): if flag == 1: idx += 2**ind
RECURSIVE flag_sum(_, _)
flag_sum(crd, ind) ==
    IF ind >= Len(crd) THEN 0
    ELSE (IF crd[Len(crd) - ind] = 1 THEN Pow2(ind) ELSE 0) + flag_sum(crd, ind + 1)

\* full_tree_id with the first slot of the next level as the offset.
full_tree_id_next_level(crd) == Pow2(Len(crd)) - 1 + flag_sum(crd, 0)

\* full_tree_id of a coordinate of length at least 1.
full_tree_id(crd) == Pow2(Len(crd) - 1) - 1 + flag_sum(crd, 0)

\* One pass of the loop of coords_to_id over a node of the traversal.
coords_to_id_step(traversed_id, node) ==
    LET k      == full_tree_id(node.coords)
        put    == [j \in (DOMAIN traversed_id) \cup {k} |->
                      IF j = k THEN [coords |-> node.coords, bounds |-> node.bounds,
                                     thres |-> node.thres, parent_id |-> -1]
                      ELSE traversed_id[j]]
        prefix == PySlice(node.coords, 0, -1)
        par    == {j \in DOMAIN put : put[j].coords = prefix}
    IN  [put EXCEPT ![k].parent_id =
            IF Cardinality(par) = 1 THEN CHOOSE j \in par : TRUE ELSE -1]

RECURSIVE coords_to_id_from(_, _, _)
coords_to_id_from(trav, i, traversed_id) ==
    IF i > Len(trav) THEN traversed_id
    ELSE coords_to_id_from(trav, i + 1, coords_to_id_step(traversed_id, trav[i]))

\* The empty dictionary.
EmptyDict == [j \in {} |-> 0]

coords_to_id(trav) == coords_to_id_from(trav, 1, EmptyDict)

\* moments['z'] summed without the bin of the right bound.
moment_z_open(spectrumZ, bounds) == SeqSum(PySlice(spectrumZ, bounds[1], bounds[2]))

\* calc_moments / calc_moments_wo_LDR: moments['z'], the raw sum over bounds.
moment_z(spectrumZ, bounds) == SeqSum(PySlice(spectrumZ, bounds[1], bounds[2] + 1))

-----------------------------------------------------------------------------
(* Inputs *)

\* Length of the spectra that are enumerated bin by bin.
NvSmall == 4

\* Largest number of masked bins in an enumerated spectrum.
MaxMasked == 1

\* Largest number of peaks in a spectrum composed of peak and gap shapes.
MaxPeaks == 4

\* Longest coordinate handed to full_tree_id on its own.
MaxCoordLen == 6

\* Reflectivities of a bin, relative to the noise threshold 20: 0 is below it,
\* 21 is above it but not above 1.1 times it, 24 and 25 are above 1.1 times it
\* but less than 1 dB above it, 31 is more than 1 dB above it and above 24,
\* and less than 1 dB above 25.
Levels == {0, 21, 24, 25, 31}

NoiseThresholds == {20}

\* Every spectrum of NvSmall bins over Levels with at most MaxMasked masked bins.
SmallInputs ==
    {[z |-> z, mask |-> [i \in 1..NvSmall |-> i \in M]] :
        z \in [1..NvSmall -> Levels],
        M \in {M \in SUBSET (1..NvSmall) : Cardinality(M) <= MaxMasked}}

\* Runs of bins above the threshold: weak with a minimum (less than 1 dB above
\* the threshold), strong, and strong with a prominent minimum that is lower
\* than the minimum of the weak run.
PeakShapes == {<<25, 24, 25>>, <<31, 31>>, <<31, 23, 31>>}

\* What separates two runs: nothing (they merge), one noise bin, or two noise
\* bins around a single-bin spike.
GapShapes == {<< >>, <<0>>, <<0, 31, 0>>}

\* The spectra made of k peak shapes separated by k - 1 gap shapes.
RECURSIVE Composed(_)
Composed(k) ==
    IF k = 1 THEN PeakShapes
    ELSE {c \o g \o p : c \in Composed(k - 1), g \in GapShapes, p \in PeakShapes}

ComposedInputs ==
    {[z |-> z, mask |-> [i \in 1..Len(z) |-> FALSE]] :
        z \in UNION {Composed(k) : k \in 1..MaxPeaks}}

\* Largest number of peaks in a train of strong peaks.
MaxTrain == 5

\* k strong peaks with a prominent minimum each, one noise bin between them.
RECURSIVE Train(_)
Train(k) == IF k = 1 THEN <<31, 23, 31>> ELSE Train(k - 1) \o <<0, 31, 23, 31>>

TrainInputs ==
    {[z |-> Train(k), mask |-> [i \in 1..Len(Train(k)) |-> FALSE]] : k \in 1..MaxTrain}

Inputs == SmallInputs \cup ComposedInputs \cup TrainInputs

\* Coordinates of length 1..MaxCoordLen with entries 0 and 1.
CoordLists == UNION {[1..n -> {0, 1}] : n \in 1..MaxCoordLen}

-----------------------------------------------------------------------------
(* tree_from_spectrum, step by step *)

\* No Node yet.
NoTree == [bounds |-> <<-1, -1>>, children |-> << >>, level |-> 0, root |-> FALSE,
           threshold |-> 0, spec |-> << >>, prom_filter |-> prom_filter]

\* The fill value 1e-30 of line 407.  With a noise threshold above 0 the bins
\* that are kept are above it, and a minimum at a filled bin is passed over by
\* line 410, as with 0.
FillTiny == 0

masked_Z == fill_with(specZ, specZ_mask, 0)

\* The peaks without the single-bin filter.
filter_nothing(pk) == pk

\* peak_ind = list(filter(lambda e: e[1]-e[0] > 0, peak_ind))
filter_single_bin(pk) == SelectSeq(pk, LAMBDA e : e[2] - e[1] > 0)

\* The node at which add_min(node, new_index, ...) reaches its else branch.
RECURSIVE insertion_node_min(_, _)
insertion_node_min(node, new_index) ==
    LET fitting_child == fitting_min(node, new_index)
    IN  IF Cardinality(fitting_child) = 1
        THEN insertion_node_min(node.children[CHOOSE i \in fitting_child : TRUE],
                                new_index)
        ELSE node

\* The node at which add_noise_sep(node, bounds_left, bounds_right, ...) reaches
\* its else branch.
RECURSIVE insertion_node_noise_sep(_, _, _)
insertion_node_noise_sep(node, bounds_left, bounds_right) ==
    LET fitting_child == fitting_noise_sep(node, bounds_left, bounds_right)
    IN  IF Cardinality(fitting_child) = 1
        THEN insertion_node_noise_sep(node.children[CHOOSE i \in fitting_child : TRUE],
                                      bounds_left, bounds_right)
        ELSE node

\* Lines 390-399: peak detection, the single-bin filter and the root.
DetectPeaks ==
    /\ pc = "detect"
    /\ LET pk == filter_single_bin(detect_peak_simple(masked_Z, noise_thres))
       IN  /\ peak_ind' = pk
           /\ IF pk # << >>
              THEN /\ t' = Node(<<pk[1][1], pk[Len(pk)][2]>>,
                                PySlice(specZ, pk[1][1], pk[Len(pk)][2] + 1),
                                noise_thres, TRUE, 0)
                   /\ pairs' = peak_pairs_to_call(pk)
                   /\ pc' = "noise"
              ELSE /\ t' = t
                   /\ pairs' = pairs
                   /\ pc' = "assemble"
    /\ UNCHANGED <<specZ, specZ_mask, noise_thres, minima, hist, raised, traversed,
                   no_nodes, Z, bound_l, bound_r, parent, thres, travtree, coord, idx>>
    /\ UNCHANGED extVars

\* Lines 400-402: one pass of the loop over peak_pairs_to_call.
AddNoiseSep ==
    /\ pc = "noise"
    /\ pairs # << >>
    /\ LET peak_pair == Head(pairs)
           new       == add_noise_sep(t, peak_pair[1], peak_pair[2], noise_thres)
       IN  /\ t' = new
           /\ hist' = IF new # t
                      THEN Append(hist, [op |-> "noise_sep", left |-> peak_pair[1],
                                         right |-> peak_pair[2], index |-> -1])
                      ELSE hist
    /\ pairs' = Tail(pairs)
    /\ UNCHANGED <<pc, specZ, specZ_mask, noise_thres, peak_ind, minima, raised,
                   traversed, no_nodes, Z, bound_l, bound_r, parent, thres,
                   travtree, coord, idx>>
    /\ UNCHANGED extVars

\* The argument of get_minima taken from specZ, the masked bins not zeroed.
minima_input_unmasked ==
    fill_with(specZ, [i \in 1..Len(specZ) |-> lt_1p1(specZ[i], noise_thres)], FillTiny)

\* Line 407: the argument of get_minima, masked_Z with the low bins filled.
minima_input ==
    fill_with(masked_Z, [i \in 1..Len(masked_Z) |-> lt_1p1(masked_Z[i], noise_thres)],
              FillTiny)

\* Line 407: the minima of the spectrum with the low bins filled.
GetMinima ==
    /\ pc = "noise"
    /\ pairs = << >>
    /\ minima' = get_minima(minima_input)
    /\ pc' = "minima"
    /\ UNCHANGED <<specZ, specZ_mask, noise_thres, peak_ind, t, pairs, hist, raised,
                   traversed, no_nodes, Z, bound_l, bound_r, parent, thres,
                   travtree, coord, idx>>
    /\ UNCHANGED extVars

\* Lines 408-411: one pass of the loop over the minima, for a minimum above
\* 1.1 * noise_thres.
AddMin ==
    /\ pc = "minima"
    /\ minima # << >>
    /\ gt_1p1(Head(minima)[2], noise_thres)
    /\ LET m == Head(minima)
       IN  IF add_min_raises(t, m[1])
           THEN /\ raised' = TRUE
                /\ pc' = "aborted"
                /\ UNCHANGED <<t, hist>>
           ELSE LET new == add_min(t, m[1], m[2], FALSE)
                    at  == insertion_node_min(t, m[1])
                IN  /\ t' = new
                    /\ hist' = IF new # t
                               THEN Append(hist, [op |-> "min",
                                                  left |-> <<at.bounds[1], m[1]>>,
                                                  right |-> <<m[1], at.bounds[2]>>,
                                                  index |-> m[1]])
                               ELSE hist
                    /\ UNCHANGED <<raised, pc>>
    /\ minima' = Tail(minima)
    /\ UNCHANGED <<specZ, specZ_mask, noise_thres, peak_ind, pairs, traversed,
                   no_nodes, Z, bound_l, bound_r, parent, thres, travtree, coord, idx>>
    /\ UNCHANGED extVars

\* Lines 412-414: a minimum that is not above 1.1 * noise_thres is passed over.
SkipMin ==
    /\ pc = "minima"
    /\ minima # << >>
    /\ ~gt_1p1(Head(minima)[2], noise_thres)
    /\ minima' = Tail(minima)
    /\ UNCHANGED <<pc, specZ, specZ_mask, noise_thres, peak_ind, t, pairs, hist,
                   raised, traversed, no_nodes, Z, bound_l, bound_r, parent, thres,
                   travtree, coord, idx>>
    /\ UNCHANGED extVars

\* The moment weights with the bins at the threshold set to 0 as well.
moment_weights_above(thr) ==
    fill_with(masked_Z, [i \in 1..Len(masked_Z) |-> masked_Z[i] <= thr], 0)

\* Lines 288-289 of calc_moments: the weights handed to moment(), masked_Z
\* with the bins below the threshold of the node set to 0.
moment_weights(thr) ==
    fill_with(masked_Z, [i \in 1..Len(masked_Z) |-> masked_Z[i] < thr], 0)

\* Lines 416-425: traversal, ids and the moments of every node.
with_moments(trav_id) ==
    [k \in DOMAIN trav_id |->
        [coords    |-> trav_id[k].coords,
         bounds    |-> trav_id[k].bounds,
         thres     |-> trav_id[k].thres,
         parent_id |-> trav_id[k].parent_id,
         z         |-> moment_z(specZ, trav_id[k].bounds)]]

Traverse ==
    /\ pc = "minima"
    /\ minima = << >>
    /\ traversed' = with_moments(coords_to_id(traverse(t, <<0>>)))
    /\ pc' = "assemble"
    /\ UNCHANGED <<specZ, specZ_mask, noise_thres, peak_ind, t, pairs, minima, hist,
                   raised, no_nodes, Z, bound_l, bound_r, parent, thres, travtree,
                   coord, idx>>
    /\ UNCHANGED extVars

-----------------------------------------------------------------------------
(* assemble_time_height for the cell, and its reload *)

max_no_nodes == 15

\* The fill value of the output arrays, also their missing_value.
MissingValue == -999

Slots == 0..(max_no_nodes - 1)

\* helpers.lin2z(x) = 10 * log10(x), kept as the decibel value of x.
lin2z(x) == <<"dB", x>>

\* The arrays as np.zeros leaves them, without the fill.
ZeroArray == [k \in Slots |-> 0]

FilledArray == [k \in Slots |-> MissingValue]

\* nodes_to_save without the root.
nodes_to_save_below_root(trav) == {i \in DOMAIN trav : 0 < i /\ i < max_no_nodes}

\* nodes_to_save = [i for i in node_ids if i < max_no_nodes]
nodes_to_save(trav) == {i \in DOMAIN trav : i < max_no_nodes}

\* The number of nodes that are written to the arrays.
count_saved(trav) == Cardinality(nodes_to_save(trav))

\* no_nodes[it,ir] = len(node_ids)
count_nodes(trav) == Cardinality(DOMAIN trav)

\* Lines 862-880: packing of the traversed tree of the cell.
AssembleCell ==
    /\ pc = "assemble"
    /\ LET save == nodes_to_save(traversed)
       IN  /\ no_nodes' = count_nodes(traversed)
           /\ Z' = [k \in Slots |-> IF k \in save THEN lin2z(traversed[k].z) ELSE Z[k]]
           /\ bound_l' = [k \in Slots |->
                             IF k \in save THEN traversed[k].bounds[1] ELSE bound_l[k]]
           /\ bound_r' = [k \in Slots |->
                             IF k \in save THEN traversed[k].bounds[2] ELSE bound_r[k]]
           /\ parent' = [k \in Slots |->
                            IF k \in save THEN traversed[k].parent_id ELSE parent[k]]
           /\ thres' = [k \in Slots |->
                           IF k \in save THEN lin2z(traversed[k].thres) ELSE thres[k]]
    /\ pc' = "saved"
    /\ UNCHANGED <<specZ, specZ_mask, noise_thres, peak_ind, t, pairs, minima, hist,
                   raised, traversed, travtree, coord, idx>>
    /\ UNCHANGED extVars

\* Lines 780-811 of get_tree_at build the dictionary node by node; the result
\* is LookupFailed when travtree[parent_id] is no entry of it.
LookupFailed == [j \in {-2} |-> [parent_id |-> -2, bounds |-> <<-2, -2>>,
                                 coords |-> << >>]]

\* One pass of the loop of get_tree_at over an available node k.
reload_step(tree, k, par, bl, br) ==
    IF tree = LookupFailed THEN LookupFailed
    ELSE IF par[k] = MissingValue THEN tree
    ELSE IF k # 0 /\ par[k] \notin DOMAIN tree THEN LookupFailed
    ELSE LET crd == IF k = 0 THEN <<0>>
                    ELSE IF k % 2 = 0 THEN Append(tree[par[k]].coords, 1)
                    ELSE Append(tree[par[k]].coords, 0)
         IN  [j \in (DOMAIN tree) \cup {k} |->
                 IF j = k THEN [parent_id |-> par[k], bounds |-> <<bl[k], br[k]>>,
                                coords |-> crd]
                 ELSE tree[j]]

RECURSIVE reload_from(_, _, _, _, _)
reload_from(tree, avail, par, bl, br) ==
    IF avail = << >> THEN tree
    ELSE reload_from(reload_step(tree, Head(avail), par, bl, br), Tail(avail),
                     par, bl, br)

\* The result of get_tree_at when parent[it,ir,:] has no attribute mask.
NoMaskAttribute == [j \in {-3} |-> [parent_id |-> -3, bounds |-> <<-3, -3>>,
                                    coords |-> << >>]]

\* A slot of the cell holds the missing value of the variable 'parent': the
\* array is filled with -999 before the nodes are written (lines 831-832), and
\* saveVar gives the variable the attribute missing_value = -999 (lines
\* 493-494), so the file masks these slots when the cell is read.
some_slot_missing(par) == \E k \in Slots : par[k] = MissingValue

\* Line 780: avail_nodes = np.argwhere(~parent[it,ir,:].mask).ravel().  The
\* file masks the slots that hold the missing value, and avail_nodes are the
\* other slots in ascending order.  When no slot of the cell holds it, the
\* mask is the scalar nomask and np.argwhere(True).ravel() is empty, or [0],
\* by the version of numpy.
avail_nodes(par) ==
    IF some_slot_missing(par)
    THEN {SortedSeq({k \in Slots : par[k] # MissingValue})}
    ELSE {<< >>, <<0>>}

\* get_tree_at in 'peakTree' mode: the trees it can return.  When no slot of
\* the cell holds the missing value, the array that is read may also be a
\* plain array by the version of netCDF4, and .mask raises AttributeError.
get_tree_at_peakTree(par, bl, br) ==
    {reload_from(EmptyDict, avail, par, bl, br) : avail \in avail_nodes(par)}
        \cup (IF some_slot_missing(par) THEN {} ELSE {NoMaskAttribute})

ReloadCell ==
    /\ pc = "saved"
    /\ \E tree \in get_tree_at_peakTree(parent, bound_l, bound_r) :
          IF tree = LookupFailed
          THEN pc' = "reload_failed" /\ travtree' = travtree
          ELSE IF tree = NoMaskAttribute
          THEN pc' = "reload_no_mask" /\ travtree' = travtree
          ELSE pc' = "done" /\ travtree' = tree
    /\ UNCHANGED <<specZ, specZ_mask, noise_thres, peak_ind, t, pairs, minima, hist,
                   raised, traversed, no_nodes, Z, bound_l, bound_r, parent, thres,
                   coord, idx>>
    /\ UNCHANGED extVars

-----------------------------------------------------------------------------
(* tree_from_spectrum as a whole, and assemble_time_height over a grid of cells *)

\* Lines 400-402: the loop over peak_pairs_to_call.
RECURSIVE add_noise_sep_all(_, _, _)
add_noise_sep_all(node, prs, thr) ==
    IF prs = << >> THEN node
    ELSE add_noise_sep_all(add_noise_sep(node, Head(prs)[1], Head(prs)[2], thr),
                           Tail(prs), thr)

\* The tree after ValueError was raised: the call has no result.
RaisedTree == [NoTree EXCEPT !.bounds = <<-3, -3>>]

\* Lines 408-414: the loop over the minima.
RECURSIVE add_min_all(_, _, _)
add_min_all(node, mins, thr) ==
    IF mins = << >> THEN node
    ELSE IF ~gt_1p1(Head(mins)[2], thr) THEN add_min_all(node, Tail(mins), thr)
    ELSE IF add_min_raises(node, Head(mins)[1]) THEN RaisedTree
    ELSE add_min_all(add_min(node, Head(mins)[1], Head(mins)[2], FALSE),
                     Tail(mins), thr)

\* tree_from_spectrum(spectrum): the traversed tree with the moment z of every
\* node; the empty dictionary without peaks.
tree_from_spectrum(spec) ==
    LET thr  == spec.noise_thres
        mZ   == fill_with(spec.specZ, spec.specZ_mask, 0)
        pk   == filter_single_bin(detect_peak_simple(mZ, thr))
        root == Node(<<pk[1][1], pk[Len(pk)][2]>>,
                     PySlice(spec.specZ, pk[1][1], pk[Len(pk)][2] + 1),
                     thr, TRUE, 0)
        t1   == add_noise_sep_all(root, peak_pairs_to_call(pk), thr)
        mins == get_minima(fill_with(mZ, [i \in 1..Len(mZ) |-> lt_1p1(mZ[i], thr)],
                                     FillTiny))
        t2   == add_min_all(t1, mins, thr)
        trav == coords_to_id(traverse(t2, <<0>>))
    IN  IF pk = << >> THEN EmptyDict
        ELSE [k \in DOMAIN trav |->
                 [coords    |-> trav[k].coords,
                  bounds    |-> trav[k].bounds,
                  thres     |-> trav[k].thres,
                  parent_id |-> trav[k].parent_id,
                  z         |-> moment_z(spec.specZ, trav[k].bounds)]]

\* Number of output time steps and of range gates of the grid of cells.
NCellTimes == 2

NCellRanges == 2

\* The cells (it, ir) of the grid.
Cells == (0..(NCellTimes - 1)) \X (0..(NCellRanges - 1))

\* The spectra of a cell: one without a peak, one with a tree of five nodes.
CellSpectra ==
    {[specZ |-> <<21, 0, 21, 0, 0, 0>>, specZ_mask |-> [i \in 1..6 |-> FALSE],
      noise_thres |-> 20],
     [specZ |-> <<31, 23, 31, 0, 31, 31>>, specZ_mask |-> [i \in 1..6 |-> FALSE],
      noise_thres |-> 20]}

\* Lines 831-843: the arrays filled with -999, no_nodes with zeros.
EmptyArrays ==
    [no_nodes |-> [c \in Cells |-> 0],
     Z        |-> [c \in Cells |-> FilledArray],
     bound_l  |-> [c \in Cells |-> FilledArray],
     bound_r  |-> [c \in Cells |-> FilledArray],
     parent   |-> [c \in Cells |-> FilledArray],
     thres    |-> [c \in Cells |-> FilledArray]]

\* write_cell with the range index left out: every cell of the time step is
\* written.
write_cell_all_ranges(o, c, trav) ==
    LET save    == nodes_to_save(trav)
        hit(d)  == d[1] = c[1]
    IN  [no_nodes |-> [d \in Cells |-> IF hit(d) THEN count_nodes(trav) ELSE o.no_nodes[d]],
         Z        |-> [d \in Cells |-> IF hit(d)
                          THEN [k \in Slots |-> IF k \in save THEN lin2z(trav[k].z)
                                                 ELSE o.Z[d][k]]
                          ELSE o.Z[d]],
         bound_l  |-> [d \in Cells |-> IF hit(d)
                          THEN [k \in Slots |-> IF k \in save THEN trav[k].bounds[1]
                                                 ELSE o.bound_l[d][k]]
                          ELSE o.bound_l[d]],
         bound_r  |-> [d \in Cells |-> IF hit(d)
                          THEN [k \in Slots |-> IF k \in save THEN trav[k].bounds[2]
                                                 ELSE o.bound_r[d][k]]
                          ELSE o.bound_r[d]],
         parent   |-> [d \in Cells |-> IF hit(d)
                          THEN [k \in Slots |-> IF k \in save THEN trav[k].parent_id
                                                 ELSE o.parent[d][k]]
                          ELSE o.parent[d]],
         thres    |-> [d \in Cells |-> IF hit(d)
                          THEN [k \in Slots |-> IF k \in save THEN lin2z(trav[k].thres)
                                                 ELSE o.thres[d][k]]
                          ELSE o.thres[d]]]

\* Lines 862-880: the writes of the pass for cell c = (it, ir).
write_cell(o, c, trav) ==
    LET save == nodes_to_save(trav)
    IN  [no_nodes |-> [o.no_nodes EXCEPT ![c] = count_nodes(trav)],
         Z        |-> [o.Z EXCEPT ![c] =
                          [k \in Slots |-> IF k \in save THEN lin2z(trav[k].z) ELSE @[k]]],
         bound_l  |-> [o.bound_l EXCEPT ![c] =
                          [k \in Slots |-> IF k \in save THEN trav[k].bounds[1] ELSE @[k]]],
         bound_r  |-> [o.bound_r EXCEPT ![c] =
                          [k \in Slots |-> IF k \in save THEN trav[k].bounds[2] ELSE @[k]]],
         parent   |-> [o.parent EXCEPT ![c] =
                          [k \in Slots |-> IF k \in save THEN trav[k].parent_id ELSE @[k]]],
         thres    |-> [o.thres EXCEPT ![c] =
                          [k \in Slots |-> IF k \in save THEN lin2z(trav[k].thres)
                                           ELSE @[k]]]]

CellsIdle ==
    /\ cell_spectrum = << >>
    /\ todo = {}
    /\ out = << >>

\* Lines 852-880: the pass of the loops over it and ir for one cell.
ProcessCell ==
    /\ pc = "cells"
    /\ \E c \in todo :
          /\ out' = write_cell(out, c, tree_from_spectrum(cell_spectrum[c]))
          /\ todo' = todo \ {c}
    /\ UNCHANGED <<pc, treeVars, coord, idx, gridVars, cell_spectrum, ldrVars>>

-----------------------------------------------------------------------------
(* get_tree_at in 'spec' mode: the cross channel, and ldr and ldrmax *)

\* A float that may be NaN: num / den, or NaN.
NaN == [nan |-> TRUE, num |-> 0, den |-> 1]

Float(num, den) == [nan |-> FALSE, num |-> num, den |-> den]

\* The float 0.0.
ZeroFloat == Float(0, 1)

\* x == 0.0 for a float x.
IsZero(x) == ~x.nan /\ x.num = 0

\* np.allclose(x, 0.0) for a float x with den > 0: |x| <= 1e-8.
allclose_zero(x) ==
    /\ ~x.nan
    /\ (IF x.num < 0 THEN -x.num ELSE x.num) <= x.den \div 100000000

\* A file without the variable 'LDR'.
NoVariable == <<"no", "variable", "LDR">>

\* array[::-1]
Reverse(s) == [i \in 1..Len(s) |-> s[Len(s) + 1 - i]]

\* np.convolve(specZ, np.array([0.5, 1, 0.5]) / 2.0, mode='same'), in quarters
\* of the unit of specZ: 4 * (0.25 * z[i-1] + 0.5 * z[i] + 0.25 * z[i+1]).
convolve_quarters(z) ==
    LET at(i) == IF i \in 1..Len(z) THEN z[i] ELSE 0
    IN  [i \in 1..Len(z) |-> at(i - 1) + 2 * at(i) + at(i + 1)]

\* specZ * specLDR, in hundredths of the unit of specZ (LDR values are
\* hundredths).
times_LDR(z, v) == IF v.nan THEN NaN ELSE Float(z * v.num, v.den)

\* np.nanmin(array): NaN when every entry is NaN.
nanmin(a) ==
    LET fin == {i \in 1..Len(a) : ~a[i].nan}
    IN  IF fin = {} THEN NaN
        ELSE a[CHOOSE i \in fin : \A j \in fin : a[i].num <= a[j].num]

\* x < m * h.z2lin(settings['thres_factor_cx']) for thres_factor_cx = 3.0, that
\* is x < m * 1.99526231496887960135...; x and m are hundredths, m >= 0.  The
\* product is no integer for m > 0, so x is below it when x is at most its
\* integer part.  The float test has the same result for m up to 20000.
lt_thres_Zcx(x, m) ==
    /\ ~x.nan
    /\ ~m.nan
    /\ IF m.num = 0 THEN x.num < 0
       ELSE x.num <= m.num + floor_times_fraction(m.num,
                                   <<9952, 6231, 4968, 8796, 135>>)

\* Line 731: noise_thres = 1e-25 if np.all(specZ_mask) else
\* specZ[~specZ_mask].min() * h.z2lin(settings['thres_factor_co']), from the
\* spectrum before the smoothing, for thres_factor_co = 3.0
\* (z2lin(3.0) = 1.9952623149688796...).  With Zv in units of Z the result is
\* in 1/4000 of that unit, rounded down: the integer part of
\* m * 7981.04925987551840540982, which is that of 4000 times the float
\* product for every m up to 200000; 1e-25 is 0.  The bins of the smoothed
\* spectrum are multiples of 1000 in that unit: none lies between the rounded
\* and the exact threshold, or between their products with 1.1 or with
\* 10^(1/10), for a lowest bin of 1, 2, 31 or 62.  Without an unmasked bin the
\* spectrum is zero everywhere, no bin is above 1e-25 and line 407 is not
\* reached.
noise_thres_of(Zv) ==
    LET unmasked == {i \in 1..Len(Zv) : Zv[i] # 0}
    IN  IF unmasked = {} THEN 0
        ELSE LET m == Zv[CHOOSE i \in unmasked : \A j \in unmasked : Zv[i] <= Zv[j]]
             IN  m * 7981 + floor_times_fraction(m,
                                   <<492, 5987, 5518, 4054, 982>>)

\* temporal_average = False.
NoAverage == <<"False">>

\* The sum over the time steps cols of every bin: no_averages times
\* np.average(cols, axis=1).
sum_columns(cols) ==
    [i \in 1..Len(cols[1]) |-> SeqSum([c \in 1..Len(cols) |-> cols[c][i]])]

\* The same for floats of one denominator: NaN where a time step holds NaN.
sum_columns_nan(cols) ==
    [i \in 1..Len(cols[1]) |->
        IF \E c \in 1..Len(cols) : cols[c][i].nan THEN NaN
        ELSE Float(SeqSum([c \in 1..Len(cols) |-> cols[c][i].num]), cols[1][i].den)]

\* Line 716: specLDR = specZcx / specZ for specZcx in hundredths.  A bin with
\* specZ = 0 has Z = 0 in every time step, so its specZcx is 0 or NaN and the
\* quotient is NaN.
ratio_LDR(zcx, z) ==
    IF zcx.nan \/ z = 0 THEN NaN ELSE Float(zcx.num, zcx.den * z)

\* Lines 731-764 of get_tree_at: the spectrum dictionary from the arrays of
\* either branch of line 698.  Zv, Zcx and SNRv are no_averages times the
\* arrays of the code: specZ (smoothed), specZ_validcx and noise_thres are in
\* 1/(4000 * no_averages) of the unit of Z, specZcx and specZcx_validcx in
\* 1/(100 * no_averages) of it, specSNRco in 1/no_averages.  Every comparison
\* and every ratio of the code has the same result in these units.
spectrum_of(Zv, Zmask, LDRv, LDRmask, Zcx, SNRv, no_averages) ==
    LET n         == Len(Zv)
        smoothed  == [i \in 1..n |-> 1000 * convolve_quarters(Zv)[i]]
        specZcx   == Reverse(Zcx)
        thres_Zcx == nanmin(specZcx)
        Zcx_mask  == [i \in 1..n |-> lt_thres_Zcx(specZcx[i], thres_Zcx)
                                     \/ specZcx[i].nan]
    IN  [specZ           |-> Reverse(smoothed),
         noise_thres     |-> noise_thres_of(Zv),
         no_temp_avg     |-> no_averages,
         specZ_mask      |-> Reverse(Zmask),
         specSNRco       |-> Reverse(SNRv),
         specLDR         |-> Reverse(LDRv),
         specLDR_mask    |-> Reverse(LDRmask),
         specZcx         |-> specZcx,
         specZcx_mask    |-> Zcx_mask,
         specZcx_validcx |-> [i \in 1..n |-> IF Zcx_mask[i] THEN 0 ELSE specZcx[i].num],
         specZ_validcx   |-> Reverse(smoothed)]

\* Lines 698-764 of get_tree_at: the spectrum dictionary of the cell at time
\* step it (zero-based) of the file.  Without temporal_average the branch of
\* lines 699-708 takes the time step it; with the window (it_b, it_e) of
\* lines 685-690 the branch of lines 710-724 averages the time steps
\* it_b..it_e that the file has.
prepare_spectrum(Zf, LDRf, SNRf, it, temporal_average) ==
    IF temporal_average = NoAverage
    THEN LET Zv  == Zf[it + 1]
             n   == Len(Zv)
             Zcx == [i \in 1..n |-> times_LDR(Zv[i], LDRf[it + 1][i])]
         IN  spectrum_of(Zv, [i \in 1..n |-> Zv[i] = 0],
                         LDRf[it + 1], [i \in 1..n |-> LDRf[it + 1][i].nan],
                         Zcx, SNRf[it + 1], 1)
    ELSE LET it_b == temporal_average[1]
             it_e == temporal_average[2]
             Zc   == PySlice(Zf, it_b, it_e + 1)
             LDRc == PySlice(LDRf, it_b, it_e + 1)
             SNRc == PySlice(SNRf, it_b, it_e + 1)
             n    == Len(Zc[1])
             Zcx  == sum_columns_nan(
                         [c \in 1..Len(Zc) |->
                             [i \in 1..n |-> times_LDR(Zc[c][i], LDRc[c][i])]])
             Zv   == sum_columns(Zc)
             LDRv == [i \in 1..n |-> ratio_LDR(Zcx[i], Zv[i])]
         IN  spectrum_of(Zv, [i \in 1..n |-> Zv[i] = 0],
                         LDRv, [i \in 1..n |-> Zv[i] = 0 \/ LDRv[i].nan],
                         Zcx, sum_columns(SNRc), Len(Zc))

\* calc_moments without the test for a ratio of zero.
calc_moments_keeps_zero(spec, bounds) ==
    LET ind_max == argmax(PySlice(spec.specSNRco, bounds[1], bounds[2] + 1))
        ldrmax  == PySlice(spec.specLDR, bounds[1], bounds[2] + 1)[ind_max + 1]
        a       == SeqSum(PySlice(spec.specZcx_validcx, bounds[1], bounds[2] + 1))
        q       == SeqSum(PySlice(spec.specZ_validcx, bounds[1], bounds[2] + 1))
        all_cx  == \A i \in 1..Len(spec.specZcx_mask) : spec.specZcx_mask[i]
        ldr2    == IF all_cx \/ q = 0 THEN NaN ELSE Float(40 * a, q)
    IN  [ldr    |-> ldr2,
         ldrmax |-> ldrmax]

\* calc_moments: moments['ldr'] and moments['ldrmax'] of a node with bounds.
\* The sum of specZcx_validcx is in 1/(100 * no_averages), that of
\* specZ_validcx in 1/(4000 * no_averages): their ratio is 40 * a / q.
calc_moments(spec, bounds) ==
    LET ind_max == argmax(PySlice(spec.specSNRco, bounds[1], bounds[2] + 1))
        ldrmax  == PySlice(spec.specLDR, bounds[1], bounds[2] + 1)[ind_max + 1]
        a       == SeqSum(PySlice(spec.specZcx_validcx, bounds[1], bounds[2] + 1))
        q       == SeqSum(PySlice(spec.specZ_validcx, bounds[1], bounds[2] + 1))
        all_cx  == \A i \in 1..Len(spec.specZcx_mask) : spec.specZcx_mask[i]
        ldr2    == IF all_cx \/ q = 0 THEN NaN ELSE Float(40 * a, q)
    IN  [ldr    |-> IF ~ldr2.nan /\ ~allclose_zero(ldr2) THEN ldr2 ELSE NaN,
         ldrmax |-> ldrmax]

\* calc_moments_wo_LDR: moments['ldr'] and moments['ldrmax'].
calc_moments_wo_LDR(spec, bounds) == [ldr |-> ZeroFloat, ldrmax |-> ZeroFloat]

\* Lines 417-425 of tree_from_spectrum: the moments of every node id.
tree_moments(spec) ==
    LET trav == tree_from_spectrum(spec)
    IN  [k \in DOMAIN trav |->
            IF "specZcx" \in DOMAIN spec
            THEN calc_moments(spec, trav[k].bounds)
            ELSE calc_moments_wo_LDR(spec, trav[k].bounds)]

\* The LDR values of a bin: NaN, 0 and 0.05.
LDRValues == {NaN, Float(0, 100), Float(5, 100)}

\* The co-channel spectra of a time step: no signal; signal that stays below
\* the noise threshold of its lowest bin; two peaks around a local minimum;
\* two peaks around a noise gap next to one low bin.
FileSpectra ==
    {<<0, 0, 0, 0>>, <<31, 31, 31, 0>>, <<31, 31, 1, 1, 31, 31>>,
     <<1, 31, 31, 0, 31, 31>>}

\* The variable 'Z' of the file: one time step, or two with the second one
\* the same spectrum or its mirror image.
FileZ ==
    {<<z>> : z \in FileSpectra} \cup {<<z, z>> : z \in FileSpectra}
        \cup {<<z, Reverse(z)>> : z \in FileSpectra}

\* The variable 'LDR' of a file with the time steps Zf.  One time step: any
\* values.  Two time steps: values that are the same in bins 1 and 2, 3 and 4,
\* and so on, in the first one, and the same values or 0.05 in every bin in
\* the second one.
FileLDR(Zf) ==
    LET bins   == 1..Len(Zf[1])
        any    == [bins -> LDRValues]
        paired == {v \in any : \A i \in bins : i % 2 = 0 => v[i] = v[i - 1]}
    IN  IF Len(Zf) = 1 THEN {<<v>> : v \in any}
        ELSE {<<v, v>> : v \in paired}
                 \cup {<<v, [i \in bins |-> Float(5, 100)]>> : v \in paired}

\* The variable 'SNRco' of the file: Z, or Z with the first time step mirrored.
FileSNRco(Zf) ==
    {Zf, [c \in 1..Len(Zf) |-> IF c = 1 THEN Reverse(Zf[1]) ELSE Zf[c]]}

\* The calls of get_tree_at for a file with the time steps Zf: a time step
\* it, and temporal_average False or a window (it_b, it_e) that begins at a
\* time step of the file and ends at one or at the index after the last.
TreeCalls(Zf) ==
    LET steps == 0..(Len(Zf) - 1)
    IN  {[it |-> it, temporal_average |-> NoAverage] : it \in steps}
            \cup {[it |-> b, temporal_average |-> <<b, e>>] :
                      b \in steps, e \in 0..Len(Zf)}

NoCall == [it |-> -1, temporal_average |-> NoAverage]

NoSpectrum == [specZ |-> << >>]

LdrIdle ==
    /\ settings_LDR = TRUE
    /\ file_Z = << >>
    /\ file_LDR = << >>
    /\ file_SNRco = << >>
    /\ ldr_call = NoCall
    /\ spectrum = NoSpectrum
    /\ moments = EmptyDict

\* get_tree_at in 'spec' mode up to the call of tree_from_spectrum; KeyError
\* at line 702 or 712 when the file has no variable 'LDR'.
GetTreeAtSpec ==
    /\ pc = "spec_mode"
    /\ \E call \in TreeCalls(file_Z) :
          /\ call.temporal_average # NoAverage
                => call.temporal_average[1] <= call.temporal_average[2]
          /\ ldr_call' = call
          /\ IF file_LDR = NoVariable
             THEN /\ pc' = "key_error"
                  /\ UNCHANGED spectrum
             ELSE /\ pc' = "tree_from_spectrum"
                  /\ spectrum' = prepare_spectrum(file_Z, file_LDR, file_SNRco,
                                                  call.it, call.temporal_average)
    /\ UNCHANGED <<treeVars, coord, idx, gridVars, cellVars, settings_LDR, file_Z,
                   file_LDR, file_SNRco, moments>>

\* tree_from_spectrum on the prepared spectrum.
TreeFromSpectrum ==
    /\ pc = "tree_from_spectrum"
    /\ moments' = tree_moments(spectrum)
    /\ pc' = "got_moments"
    /\ UNCHANGED <<treeVars, coord, idx, gridVars, cellVars, settings_LDR, file_Z,
                   file_LDR, file_SNRco, ldr_call, spectrum>>

-----------------------------------------------------------------------------
(* get_time_grid, and the averaging window of get_tree_at *)

\* Longest list of timestamps of a spectra file.
MaxTimes == 4

\* Timestamps in seconds: neighbours 3 s and 1 s apart, and a gap of 18 s.
TimeValues == {0, 3, 6, 7, 12, 30}

\* The strictly increasing lists of 2..MaxTimes timestamps.
TimestampLists ==
    {SortedSeq(S) : S \in {S \in SUBSET TimeValues :
                              Cardinality(S) >= 2 /\ Cardinality(S) <= MaxTimes}}

\* settings['grid_time'] of the campaigns Lacros and Polarstern.
GridTimes == {6, 10}

\* temporal_average given as a number of seconds.
AverageSeconds == {4, 20, 40}

\* The limit of the assertion of line 690, in seconds.
MaxAverageSpan == 15

Abs(x) == IF x < 0 THEN -x ELSE x

\* time_index(timestamps, sel_ts) for sel_ts = x2 / 2: the zero-based index of
\* the first timestamp nearest to sel_ts.
time_index_half(ts, x2) ==
    CHOOSE i \in 0..(Len(ts) - 1) :
        /\ \A j \in 0..(Len(ts) - 1) : Abs(2 * ts[i + 1] - x2) <= Abs(2 * ts[j + 1] - x2)
        /\ \A j \in 0..(i - 1) : ts[j + 1] # ts[i + 1]

time_index(ts, sel_ts) == time_index_half(ts, 2 * sel_ts)

\* np.arange(ts_range[0], ts_range[1] + 1, time_interval)
arange_grid(ts_range, time_interval) ==
    [j \in 1..((ts_range[2] - ts_range[1]) \div time_interval + 1) |->
        ts_range[1] + (j - 1) * time_interval]

\* np.digitize(x, grid) - 1: the number of grid edges at or below x, less one.
digitize_m1(x, grid) == Cardinality({j \in 1..Len(grid) : grid[j] <= x}) - 1

\* np.bincount(corresponding_grid)[b]
bincount_at(ts, grid, b) ==
    Cardinality({i \in 1..Len(ts) : digitize_m1(ts[i], grid) = b})

\* np.cumsum(bincount)[b]
cumsum_at(ts, grid, b) ==
    Cardinality({i \in 1..Len(ts) : digitize_m1(ts[i], grid) <= b})

\* get_time_grid with filter_empty: the rows (timestamp_begin, timestamp_end,
\* grid_mid, index_begin, index_end, no_indices); grid_mid is kept doubled.
get_time_grid(ts, ts_range, time_interval) ==
    LET grid  == arange_grid(ts_range, time_interval)
        nbins == 1 + digitize_m1(ts[Len(ts)], grid)  \* len(bincount), ts ascending
        nrows == Min2(Len(grid) - 1, nbins)          \* zip stops at the shortest
        row(b) == [timestamp_begin |-> grid[b + 1],
                   timestamp_end   |-> grid[b + 2],
                   grid_mid2       |-> 2 * grid[b + 1] + (grid[b + 2] - grid[b + 1]),
                   index_begin     |-> cumsum_at(ts, grid, b) - bincount_at(ts, grid, b),
                   index_end       |-> cumsum_at(ts, grid, b),
                   no_indices      |-> bincount_at(ts, grid, b)]
        rows  == [b \in 1..nrows |-> row(b - 1)]
    IN  SelectSeq(rows, LAMBDA x : x.no_indices # 0)

\* The indices of Z[:, ir, it_b:it_e+1] along a time axis of n spectra.
slice_indices(it_b, it_e, n) == {i \in 0..(n - 1) : it_b <= i /\ i < it_e + 1}

\* self.delta_ts > d, with delta_ts the mean of np.diff(timestamps), or 2.0.
delta_ts_gt(ts, d) ==
    IF Len(ts) > 1 THEN ts[Len(ts)] - ts[1] > d * (Len(ts) - 1) ELSE 2 > d

NoRequest == [kind |-> "none", it |-> -1, sel_ts |-> -1, it_b |-> -1, it_e |-> -1,
              step |-> 0]

GridIdle ==
    /\ timestamps = << >>
    /\ grid_time = 0
    /\ time_grid = << >>
    /\ request = NoRequest
    /\ window = {}
    /\ rejected = FALSE

\* Lines 824-826: the time grid of assemble_time_height.
GetTimeGrid ==
    /\ pc = "grid"
    /\ time_grid' = get_time_grid(timestamps,
                                  <<timestamps[1], timestamps[Len(timestamps)]>>,
                                  grid_time)
    /\ pc' = "assemble_time"
    /\ UNCHANGED <<treeVars, coord, idx, timestamps, grid_time, request, window,
                   rejected>>
    /\ UNCHANGED <<cellVars, ldrVars>>

\* Lines 845-857 and 675-691, 709-715: one pass of the loop over timestamps_grid,
\* with the call of get_tree_at whose temporal_average is the tuple
\* (index_begin, index_end) of the row.
AssembleTimeStep ==
    /\ pc = "assemble_time"
    /\ request.step < Len(time_grid)
    /\ LET row      == time_grid[request.step + 1]
           it_radar == time_index_half(timestamps, row.grid_mid2)
           sel_ts   == timestamps[it_radar + 1]
           it_b     == row.index_begin
           it_e     == row.index_end
       IN  /\ request' = [kind |-> "tuple", it |-> it_radar, sel_ts |-> sel_ts,
                          it_b |-> it_b, it_e |-> it_e, step |-> request.step + 1]
           /\ IF delta_ts_gt(timestamps, Abs(sel_ts - timestamps[it_radar + 1]))
              THEN /\ rejected' = FALSE
                   /\ window' = slice_indices(it_b, it_e, Len(timestamps))
              ELSE /\ rejected' = TRUE
                   /\ window' = {}
    /\ UNCHANGED <<pc, treeVars, coord, idx, timestamps, grid_time, time_grid>>
    /\ UNCHANGED <<cellVars, ldrVars>>

\* Lines 675-691, 709-715: get_tree_at with sel_ts a time of the file and
\* temporal_average a number of seconds.
GetTreeAtSeconds ==
    /\ pc = "grid"
    /\ \E k \in 1..Len(timestamps), temporal_average \in AverageSeconds :
          LET sel_ts == timestamps[k]
              it     == time_index(timestamps, sel_ts)
              it_b   == time_index_half(timestamps, 2 * sel_ts - temporal_average)
              it_e   == time_index_half(timestamps, 2 * sel_ts + temporal_average)
          IN  /\ request' = [kind |-> "seconds", it |-> it, sel_ts |-> sel_ts,
                             it_b |-> it_b, it_e |-> it_e, step |-> 0]
              /\ IF /\ delta_ts_gt(timestamps, Abs(sel_ts - timestamps[it + 1]))
                    /\ timestamps[it_e + 1] - timestamps[it_b + 1] < MaxAverageSpan
                 THEN /\ rejected' = FALSE
                      /\ window' = slice_indices(it_b, it_e, Len(timestamps))
                 ELSE /\ rejected' = TRUE
                      /\ window' = {}
    /\ pc' = "got_tree"
    /\ UNCHANGED <<treeVars, coord, idx, timestamps, grid_time, time_grid>>
    /\ UNCHANGED <<cellVars, ldrVars>>

\* Lines 675-686, 709-715: get_tree_at with sel_ts = (it, timestamps[it]) and
\* temporal_average a tuple (it_b, it_e) of bins of the time dimension.
GetTreeAtTuple ==
    /\ pc = "grid"
    /\ \E it_b \in 0..(Len(timestamps) - 1) : \E it_e \in it_b..(Len(timestamps) - 1) :
          LET it     == it_b
              sel_ts == timestamps[it + 1]
          IN  /\ request' = [kind |-> "index_pair", it |-> it, sel_ts |-> sel_ts,
                             it_b |-> it_b, it_e |-> it_e, step |-> 0]
              /\ IF delta_ts_gt(timestamps, Abs(sel_ts - timestamps[it + 1]))
                 THEN /\ rejected' = FALSE
                      /\ window' = slice_indices(it_b, it_e, Len(timestamps))
                 ELSE /\ rejected' = TRUE
                      /\ window' = {}
    /\ pc' = "got_tree"
    /\ UNCHANGED <<treeVars, coord, idx, timestamps, grid_time, time_grid>>
    /\ UNCHANGED <<cellVars, ldrVars>>

\* The idle values of the variables outside the tree of one cell.
ExtIdle == GridIdle /\ CellsIdle /\ LdrIdle

\* The idle values of the variables of the tree of one cell.
TreeIdle ==
    /\ specZ = << >>
    /\ specZ_mask = << >>
    /\ noise_thres = 0
    /\ peak_ind = << >>
    /\ t = NoTree
    /\ pairs = << >>
    /\ minima = << >>
    /\ hist = << >>
    /\ raised = FALSE
    /\ traversed = EmptyDict
    /\ no_nodes = 0
    /\ Z = FilledArray
    /\ bound_l = FilledArray
    /\ bound_r = FilledArray
    /\ parent = FilledArray
    /\ thres = FilledArray
    /\ travtree = EmptyDict

-----------------------------------------------------------------------------
(* Specifications *)

Init ==
    /\ pc = "detect"
    /\ \E in \in Inputs : specZ = in.z /\ specZ_mask = in.mask
    /\ noise_thres \in NoiseThresholds
    /\ peak_ind = << >>
    /\ t = NoTree
    /\ pairs = << >>
    /\ minima = << >>
    /\ hist = << >>
    /\ raised = FALSE
    /\ traversed = EmptyDict
    /\ no_nodes = 0
    /\ Z = FilledArray
    /\ bound_l = FilledArray
    /\ bound_r = FilledArray
    /\ parent = FilledArray
    /\ thres = FilledArray
    /\ travtree = EmptyDict
    /\ coord = << >>
    /\ idx = -1
    /\ ExtIdle

Next ==
    \/ DetectPeaks
    \/ AddNoiseSep
    \/ GetMinima
    \/ AddMin
    \/ SkipMin
    \/ Traverse
    \/ AssembleCell
    \/ ReloadCell

Spec == Init /\ [][Next]_vars

\* full_tree_id on its own, over CoordLists.
FullTreeId ==
    /\ pc = "id_call"
    /\ idx' = full_tree_id(coord)
    /\ pc' = "id_done"
    /\ UNCHANGED <<specZ, specZ_mask, noise_thres, peak_ind, t, pairs, minima, hist,
                   raised, traversed, no_nodes, Z, bound_l, bound_r, parent, thres,
                   travtree, coord>>
    /\ UNCHANGED extVars

InitId ==
    /\ pc = "id_call"
    /\ coord \in CoordLists
    /\ idx = -1
    /\ TreeIdle
    /\ ExtIdle

NextId == FullTreeId

SpecId == InitId /\ [][NextId]_vars

\* The time grid and the averaging windows of a spectra file.
InitGrid ==
    /\ pc = "grid"
    /\ timestamps \in TimestampLists
    /\ grid_time \in GridTimes
    /\ time_grid = << >>
    /\ request = NoRequest
    /\ window = {}
    /\ rejected = FALSE
    /\ TreeIdle
    /\ CellsIdle
    /\ LdrIdle
    /\ coord = << >>
    /\ idx = -1

NextGrid ==
    \/ GetTimeGrid
    \/ AssembleTimeStep
    \/ GetTreeAtSeconds
    \/ GetTreeAtTuple

SpecGrid == InitGrid /\ [][NextGrid]_vars

\* assemble_time_height over the grid of cells, the cells in any order.
InitCells ==
    /\ pc = "cells"
    /\ cell_spectrum \in [Cells -> CellSpectra]
    /\ todo = Cells
    /\ out = EmptyArrays
    /\ TreeIdle
    /\ GridIdle
    /\ LdrIdle
    /\ coord = << >>
    /\ idx = -1

NextCells == ProcessCell

SpecCells == InitCells /\ [][NextCells]_vars

\* get_tree_at in 'spec' mode for one cell, with the setting 'LDR?'.
InitLDR ==
    /\ pc = "spec_mode"
    /\ settings_LDR \in BOOLEAN
    /\ file_Z \in FileZ
    /\ file_LDR \in {NoVariable} \cup FileLDR(file_Z)
    /\ file_SNRco \in FileSNRco(file_Z)
    /\ ldr_call = NoCall
    /\ spectrum = NoSpectrum
    /\ moments = EmptyDict
    /\ TreeIdle
    /\ GridIdle
    /\ CellsIdle
    /\ coord = << >>
    /\ idx = -1

NextLDR == GetTreeAtSpec \/ TreeFromSpectrum

SpecLDR == InitLDR /\ [][NextLDR]_vars

-----------------------------------------------------------------------------
(* Properties *)

\* The nodes of the tree below and including node.
RECURSIVE NodesOf(_)
NodesOf(node) ==
    {node} \cup UNION {NodesOf(node.children[i]) : i \in 1..Len(node.children)}

\* tree_from_spectrum has built its tree: every add_noise_sep and add_min call
\* has been made.
Built == pc \in {"assemble", "saved", "done", "reload_failed", "reload_no_mask"} /\ t # NoTree

\* The number of bins of the spectrum.
Nv == Len(specZ)

\* C1: in the tree built by tree_from_spectrum every node has either no child
\* or exactly two children.
C1_TwoChildren ==
    Built => \A n \in NodesOf(t) : Len(n.children) \in {0, 2}

\* C2: every child's bounds lie inside its parent's bounds and are strictly
\* narrower.
C2_ChildInsideParent ==
    Built => \A p \in NodesOf(t) : \A i \in 1..Len(p.children) :
                LET c == p.children[i]
                IN  /\ p.bounds[1] <= c.bounds[1]
                    /\ c.bounds[2] <= p.bounds[2]
                    /\ c.bounds[2] - c.bounds[1] < p.bounds[2] - p.bounds[1]

\* C5: every node has bounds (l, r) with 0 <= l < r < Nv.
C5_BoundsInRange ==
    Built => \A n \in NodesOf(t) :
                0 <= n.bounds[1] /\ n.bounds[1] < n.bounds[2] /\ n.bounds[2] < Nv

\* The splits of hist that put a and b, in this order, under one node.
SplitsOf(a, b) == {i \in 1..Len(hist) : hist[i].left = a.bounds /\ hist[i].right = b.bounds}

\* C3: siblings in stored order do not overlap; they share a bin only when
\* they come from a local-minimum split at that bin, and the children of a
\* noise-gap split are apart.
C3_SiblingsOrdered ==
    Built => \A p \in NodesOf(t) : \A i \in 1..(Len(p.children) - 1) :
                LET a == p.children[i]
                    b == p.children[i + 1]
                IN  /\ a.bounds[2] <= b.bounds[1]
                    /\ a.bounds[2] = b.bounds[1] =>
                          \E h \in SplitsOf(a, b) :
                              hist[h].op = "min" /\ hist[h].index = a.bounds[2]
                    /\ (\E h \in SplitsOf(a, b) : hist[h].op = "noise_sep") =>
                          a.bounds[2] < b.bounds[1]

\* C4: a node whose children were inserted by add_noise_sep with bounds
\* (l1, r1), (l2, r2) has r1 < l2 and bounds (l1, r2).
C4_NoiseSepHull ==
    Built => \A p \in NodesOf(t) : \A i \in 1..(Len(p.children) - 1) :
                LET a == p.children[i]
                    b == p.children[i + 1]
                IN  (\E h \in SplitsOf(a, b) : hist[h].op = "noise_sep") =>
                        /\ a.bounds[2] < b.bounds[1]
                        /\ p.bounds = <<a.bounds[1], b.bounds[2]>>

\* tree_from_spectrum has returned a traversed tree with nodes.
Traversed == pc \in {"assemble", "saved", "done", "reload_failed", "reload_no_mask"} /\ traversed # EmptyDict

\* C6: the root has parent_id -1 and every other node's parent_id is the id of
\* a node of the traversed tree whose coords are the node's coords without the
\* last element.
C6_ParentIds ==
    Traversed =>
        /\ 0 \in DOMAIN traversed
        /\ traversed[0].parent_id = -1
        /\ \A k \in (DOMAIN traversed) \ {0} :
              /\ traversed[k].parent_id \in DOMAIN traversed
              /\ traversed[traversed[k].parent_id].coords
                    = SubSeq(traversed[k].coords, 1, Len(traversed[k].coords) - 1)

\* Every node of the tree has at most two children.
Binary == \A n \in NodesOf(t) : Len(n.children) \in {0, 2}

\* C3 and C6 hold of every built tree that is binary.
C3_WhenBinary == (Built /\ Binary) => C3_SiblingsOrdered

C6_WhenBinary == (Built /\ Binary) => C6_ParentIds

\* The sum over k = 0..n-1 of crd[n-1-k] * 2^k, crd indexed from zero.
RECURSIVE WeightedSum(_, _)
WeightedSum(crd, k) ==
    IF k >= Len(crd) THEN 0
    ELSE crd[Len(crd) - k] * Pow2(k) + WeightedSum(crd, k + 1)

\* C7: full_tree_id(coord) = 2^(n-1) - 1 + sum of coord[n-1-k] * 2^k for every
\* coordinate of length n > 0 over {0, 1}; [0] -> 0, [0,0] -> 1, [0,1] -> 2,
\* [0,0,0] -> 3, [0,1,1,0] -> 13.
C7_FullTreeId ==
    pc = "id_done" =>
        /\ idx = Pow2(Len(coord) - 1) - 1 + WeightedSum(coord, 0)
        /\ coord = <<0>> => idx = 0
        /\ coord = <<0, 0>> => idx = 1
        /\ coord = <<0, 1>> => idx = 2
        /\ coord = <<0, 0, 0>> => idx = 3
        /\ coord = <<0, 1, 1, 0>> => idx = 13

C7_Witness == pc = "id_done" /\ coord = <<0, 1, 1, 0>> /\ idx = 13

\* C8 as stated: the reloaded tree has the node ids of the built traversed
\* tree and, per id, the same coords, bounds and parent_id.
C8_RoundTrip ==
    pc = "done" =>
        /\ DOMAIN travtree = DOMAIN traversed
        /\ \A k \in DOMAIN traversed :
              /\ travtree[k].coords = traversed[k].coords
              /\ travtree[k].bounds = traversed[k].bounds
              /\ travtree[k].parent_id = traversed[k].parent_id

\* The reload of a cell with an unwritten slot never fails; it returns the
\* ids of the built traversed tree that are below max_no_nodes, each with the
\* bounds and the parent_id of the built tree, and with the coords of its
\* parent followed by 0 for an odd id and by 1 for an even id.
C8_PartCellRoundTrip ==
    /\ (pc \in {"reload_failed", "reload_no_mask"}) => ~some_slot_missing(parent)
    /\ pc # "reload_failed"
    /\ (pc = "done" /\ some_slot_missing(parent)) =>
          /\ DOMAIN travtree = {k \in DOMAIN traversed : k < max_no_nodes}
          /\ \A k \in DOMAIN travtree :
                /\ travtree[k].bounds = traversed[k].bounds
                /\ travtree[k].parent_id = traversed[k].parent_id
                /\ travtree[k].coords =
                      IF k = 0 THEN <<0>>
                      ELSE Append(travtree[travtree[k].parent_id].coords,
                                  IF k % 2 = 0 THEN 1 ELSE 0)

\* The reload of a cell whose slots are all written does not return the tree
\* that was written.
C8_FullCellLost ==
    (pc \in {"done", "reload_no_mask"} /\ ~some_slot_missing(parent)) =>
        \/ pc = "reload_no_mask"
        \/ DOMAIN travtree \in {{}, {0}}

\* moments['z'] of a node.
NodeZ(n) == moment_z(specZ, n.bounds)

\* C9: with z the raw sum of specZ over a node's bounds, a local-minimum split
\* at bin m gives p.z = l.z + r.z - specZ[m], and a noise-gap split of a
\* non-negative spectrum gives p.z >= l.z + r.z.
C9_ZOfChildren ==
    Built => \A p \in NodesOf(t) : \A i \in 1..(Len(p.children) - 1) :
                LET l == p.children[i]
                    r == p.children[i + 1]
                IN  \A h \in SplitsOf(l, r) :
                        /\ hist[h].op = "min" =>
                              NodeZ(p) = NodeZ(l) + NodeZ(r) - specZ[hist[h].index + 1]
                        /\ (hist[h].op = "noise_sep" /\ \A b \in 1..Nv : specZ[b] >= 0) =>
                              NodeZ(p) >= NodeZ(l) + NodeZ(r)

\* A built tree with a noise-gap split and a local-minimum split.
C9_Witness ==
    /\ Built
    /\ \E i, j \in 1..Len(hist) : hist[i].op = "noise_sep" /\ hist[j].op = "min"
    /\ \A k \in DOMAIN traversed : traversed[k].z = moment_z(specZ, traversed[k].bounds)

\* No bin exceeds noise_thres, masked bins counted as 0.
NoSignal == \A b \in 1..Nv : specZ_mask[b] \/ specZ[b] <= noise_thres

\* C10: without a bin above noise_thres the traversed tree is empty, nothing
\* is raised, no_nodes of the cell is 0 and every slot of the cell stays -999.
C10_EmptySpectrum ==
    (NoSignal /\ pc # "id_call" /\ pc # "id_done") =>
        /\ ~raised
        /\ pc \in {"detect", "assemble", "saved", "done"}
        /\ traversed = EmptyDict
        /\ no_nodes = 0
        /\ \A k \in Slots :
              /\ Z[k] = MissingValue
              /\ bound_l[k] = MissingValue
              /\ bound_r[k] = MissingValue
              /\ parent[k] = MissingValue
              /\ thres[k] = MissingValue

\* The cell of a spectrum whose only bins above the threshold are masked has
\* been packed.
C10_Witness ==
    /\ NoSignal
    /\ pc = "saved"
    /\ \E b \in 1..Nv : specZ[b] > noise_thres

\* A built tree with children of a noise-gap split below children of a
\* local-minimum split.
C2_Witness ==
    /\ Built
    /\ \E p \in NodesOf(t) : \E c \in NodesOf(p) :
          /\ Len(p.children) = 2 /\ Len(c.children) = 2 /\ c # p
          /\ p.children[1].threshold = noise_thres
          /\ c.children[1].threshold > noise_thres

\* A built tree whose root is split at a local minimum and whose spectrum has
\* a single-bin run that the filter discarded.
C5_Witness ==
    /\ Built
    /\ Len(t.children) = 2
    /\ t.children[1].bounds[2] = t.children[2].bounds[1]
    /\ \E b \in 1..Nv : /\ masked_Z[b] > noise_thres
                        /\ b > 1 => masked_Z[b - 1] <= noise_thres
                        /\ b < Nv => masked_Z[b + 1] <= noise_thres

\* The minima of the spectrum that pass the filter of line 410, as indices.
AcceptedMinima ==
    {m[1] : m \in {x \in {get_minima(minima_input)[j] :
                             j \in 1..Len(get_minima(minima_input))} :
                      gt_1p1(x[2], noise_thres)}}

\* The indices of the minima that were inserted as splits.
InsertedMinima == {hist[h].index : h \in {h \in 1..Len(hist) : hist[h].op = "min"}}

\* C11: no add_min call of tree_from_spectrum raises ValueError('child out of
\* parents bounds'), at the root or in a fitting child: every minimum above
\* 1.1 * noise_thres lies inside the bounds of every node it is handed to.
C11_NoValueError ==
    /\ ~raised
    /\ pc # "aborted"
    /\ (pc = "minima" /\ minima # << >> /\ gt_1p1(Head(minima)[2], noise_thres)) =>
          /\ ~add_min_raises(t, Head(minima)[1])
          /\ t.bounds[1] <= Head(minima)[1]
          /\ Head(minima)[1] <= t.bounds[2]

\* A minimum was handed down to a fitting child below a noise-gap split and
\* split it; nothing was raised.
C11_Witness ==
    /\ Built
    /\ ~raised
    /\ \E h \in 1..Len(hist) : hist[h].op = "min" /\ hist[h].left[1] # t.bounds[1]
    /\ \E g \in 1..Len(hist) : hist[g].op = "noise_sep"

\* The largest value of specZ over the bins a..b (zero-based, inclusive).
MaxOver(a, b) == SeqMax(SubSeq(specZ, a + 1, b + 1))

\* 10 * log10(max(specZ[a..b]) / thr) > 1.0
Prominent(a, b, thr) == lin2z_gt_1dB(MaxOver(a, b), thr)

\* node with two more children, of bounds bl and br and threshold thr.
SplitInto(new, old, bl, br, thr) ==
    /\ Len(new.children) = Len(old.children) + 2
    /\ SubSeq(new.children, 1, Len(old.children)) = old.children
    /\ new.children[Len(new.children) - 1].bounds = bl
    /\ new.children[Len(new.children)].bounds = br
    /\ new.children[Len(new.children) - 1].threshold = thr
    /\ new.children[Len(new.children)].threshold = thr
    /\ new.children[Len(new.children) - 1].children = << >>
    /\ new.children[Len(new.children)].children = << >>

\* What a step of the loop over the minima does to the tree.
C12_MinStep ==
    (pc = "minima" /\ minima # << >> /\ gt_1p1(Head(minima)[2], noise_thres)
        /\ minima' = Tail(minima)) =>
        LET m   == Head(minima)
            at  == insertion_node_min(t, m[1])
            at2 == insertion_node_min(t', m[1])
        IN  IF Prominent(at.bounds[1], m[1], m[2]) /\ Prominent(m[1], at.bounds[2], m[2])
            THEN /\ SplitInto(at2, at, <<at.bounds[1], m[1]>>, <<m[1], at.bounds[2]>>, m[2])
                 /\ Len(traverse(t', <<0>>)) = Len(traverse(t, <<0>>)) + 2
            ELSE t' = t

\* What a step of the loop over the noise-separated pairs does to the tree.
C12_NoiseStep ==
    (pc = "noise" /\ pairs # << >> /\ pairs' = Tail(pairs)) =>
        LET bl  == Head(pairs)[1]
            br  == Head(pairs)[2]
            at  == insertion_node_noise_sep(t, bl, br)
            at2 == insertion_node_noise_sep(t', bl, br)
        IN  IF Prominent(bl[1], bl[2], noise_thres) /\ Prominent(br[1], br[2], noise_thres)
            THEN /\ SplitInto(at2, at, bl, br, noise_thres)
                 /\ Len(traverse(t', <<0>>)) = Len(traverse(t, <<0>>)) + 2
            ELSE t' = t

\* A built tree of a single peak none of whose minima is prominent on both
\* sides has one node.
C12_SingleBump ==
    (Built /\ Len(peak_ind) = 1
       /\ \A i \in AcceptedMinima :
             ~(Prominent(t.bounds[1], i, specZ[i + 1])
                 /\ Prominent(i, t.bounds[2], specZ[i + 1])))
      => t.children = << >>

\* C12: at the node where a split is inserted, add_min (without ignore_prom)
\* and add_noise_sep append the two children if and only if
\* 10*log10(max(spec_left)/thres) > 1.0 and 10*log10(max(spec_right)/thres) > 1.0,
\* and leave the tree unchanged otherwise; a single peak none of whose minima
\* is prominent on both sides gives a tree of one node.
C12_ProminenceGate ==
    [][C12_MinStep /\ C12_NoiseStep /\ C12_SingleBump']_vars

\* A built tree with a noise-gap split, a minimum that was inserted and a
\* minimum that the gate dropped.
C12_Witness ==
    /\ Built
    /\ InsertedMinima # {}
    /\ AcceptedMinima \ InsertedMinima # {}
    /\ \E h \in 1..Len(hist) : hist[h].op = "noise_sep"

\* A call of get_tree_at with an averaging window has returned or failed.
Averaged == request.kind # "none"

\* The indices the call asked for: it_b..it_e, as far as the file has spectra.
Asked == slice_indices(request.it_b, request.it_e, Len(timestamps))

\* Seconds between the first and the last timestamp of the window asked for.
AskedSpan ==
    LET lo == CHOOSE i \in Asked : \A j \in Asked : i <= j
        hi == CHOOSE i \in Asked : \A j \in Asked : j <= i
    IN  IF Asked = {} THEN 0 ELSE timestamps[hi + 1] - timestamps[lo + 1]

\* C13: every call of get_tree_at that averages over a window whose first and
\* last timestamps are more than 15 s apart is rejected, whether the window is
\* given in seconds or as the index pair that assemble_time_height passes.
C13_WideWindowRejected ==
    (Averaged /\ AskedSpan > MaxAverageSpan) => (rejected /\ window = {})

\* The calls that give the window in seconds are rejected when it is wide.
C13_SecondsRejected ==
    (Averaged /\ request.kind = "seconds" /\ AskedSpan > MaxAverageSpan)
        => (rejected /\ window = {})

\* The calls that give the window as a tuple of time bins are never rejected.
C13_TupleNeverRejected ==
    (Averaged /\ request.kind # "seconds") => (~rejected /\ window = Asked)

\* The input indices that get_time_grid digitized into the bin of a row.
BinIndices(row) ==
    {i \in 0..(Len(timestamps) - 1) :
        /\ row.timestamp_begin <= timestamps[i + 1]
        /\ timestamps[i + 1] < row.timestamp_end}

\* C16: with grid_time set, the input time indices averaged for an output time
\* step are exactly the input indices digitized into its grid bin, and a grid
\* bin without input timestamp gives no output time step.
C16_WindowIsBin ==
    /\ \A r \in 1..Len(time_grid) : BinIndices(time_grid[r]) # {}
    /\ (request.kind = "tuple" /\ ~rejected) =>
          window = BinIndices(time_grid[request.step])

\* The rows of get_time_grid are the bins that hold an input timestamp, and
\* index_begin, index_end delimit the indices of the bin, index_end excluded.
C16_RowsAreBins ==
    \A r \in 1..Len(time_grid) :
        /\ BinIndices(time_grid[r]) # {}
        /\ BinIndices(time_grid[r]) =
              {i \in 0..(Len(timestamps) - 1) :
                  time_grid[r].index_begin <= i /\ i < time_grid[r].index_end}

\* The cell has been packed by assemble_time_height.
Packed == pc \in {"saved", "done", "reload_failed", "reload_no_mask"}

\* The slots of the cell that hold a node.
WrittenSlots == {k \in Slots : parent[k] # MissingValue}

\* C14: assemble_time_height writes the fields of the traversed ids below
\* max_no_nodes and of no other id, and no_nodes[t, r] is the number of all
\* nodes of the traversed tree, which may exceed the number of slots written
\* and max_no_nodes.
C14_CapAndCount ==
    Packed =>
        /\ no_nodes = Cardinality(DOMAIN traversed)
        /\ no_nodes >= Cardinality(WrittenSlots)
        /\ WrittenSlots = {k \in DOMAIN traversed : k < max_no_nodes}
        /\ \A k \in Slots :
              IF k \in DOMAIN traversed
              THEN /\ Z[k] = lin2z(traversed[k].z)
                   /\ bound_l[k] = traversed[k].bounds[1]
                   /\ bound_r[k] = traversed[k].bounds[2]
                   /\ parent[k] = traversed[k].parent_id
                   /\ thres[k] = lin2z(traversed[k].thres)
              ELSE /\ Z[k] = MissingValue
                   /\ bound_l[k] = MissingValue
                   /\ bound_r[k] = MissingValue
                   /\ parent[k] = MissingValue
                   /\ thres[k] = MissingValue

\* A packed cell whose tree has more nodes than max_no_nodes, some of them
\* with ids that are not written.
C14_Witness ==
    /\ Packed
    /\ no_nodes > max_no_nodes
    /\ no_nodes > Cardinality(WrittenSlots)
    /\ \E k \in DOMAIN traversed : k >= max_no_nodes
    /\ Cardinality(WrittenSlots) > 1

\* The entries of cell c in the arrays o.
CellEntries(o, c) ==
    [no_nodes |-> o.no_nodes[c], Z |-> o.Z[c], bound_l |-> o.bound_l[c],
     bound_r |-> o.bound_r[c], parent |-> o.parent[c], thres |-> o.thres[c]]

\* The entries of cell c after its pass, from its spectrum alone.
ExpectedEntries(c) ==
    LET trav    == tree_from_spectrum(cell_spectrum[c])
        kept(k) == k \in DOMAIN trav /\ k < max_no_nodes
    IN  [no_nodes |-> Cardinality(DOMAIN trav),
         Z        |-> [k \in Slots |-> IF kept(k) THEN lin2z(trav[k].z) ELSE MissingValue],
         bound_l  |-> [k \in Slots |-> IF kept(k) THEN trav[k].bounds[1] ELSE MissingValue],
         bound_r  |-> [k \in Slots |-> IF kept(k) THEN trav[k].bounds[2] ELSE MissingValue],
         parent   |-> [k \in Slots |-> IF kept(k) THEN trav[k].parent_id ELSE MissingValue],
         thres    |-> [k \in Slots |-> IF kept(k) THEN lin2z(trav[k].thres)
                                       ELSE MissingValue]]

\* C15: the pass for cell (t, r) writes only the entries [t, r, *] of the
\* per-node arrays and [t, r] of no_nodes: in whatever order the cells are
\* processed, a cell not yet processed holds its initial entries and a
\* processed cell holds the entries its own spectrum gives, so the final
\* arrays are the same for every order.
C15_CellsIndependent ==
    pc = "cells" =>
        /\ \A c \in Cells :
              IF c \in todo
              THEN CellEntries(out, c) = CellEntries(EmptyArrays, c)
              ELSE CellEntries(out, c) = ExpectedEntries(c)
        /\ todo = {} =>
              /\ out.no_nodes = [c \in Cells |-> ExpectedEntries(c).no_nodes]
              /\ out.parent = [c \in Cells |-> ExpectedEntries(c).parent]

\* A cell with a tree was processed before a cell without a peak, while
\* another cell with a tree is still to be processed.
C15_Witness ==
    /\ pc = "cells"
    /\ \E c, d, e \in Cells :
          /\ c \notin todo /\ d \notin todo /\ e \in todo
          /\ out.no_nodes[c] > 1
          /\ out.no_nodes[d] = 0
          /\ c[1] = d[1]
          /\ tree_from_spectrum(cell_spectrum[e]) # EmptyDict

\* The steps of tree_from_spectrum give the tree that the function gives.
TreeStepsAgree ==
    (pc \in {"assemble", "saved", "done", "reload_failed", "reload_no_mask"}) =>
        traversed = tree_from_spectrum([specZ |-> specZ, specZ_mask |-> specZ_mask,
                                        noise_thres |-> noise_thres])

\* C17: when the setting 'LDR?' is disabled, every node of the tree that
\* get_tree_at ('spec' mode) and tree_from_spectrum produce has ldr = 0.0 and
\* ldrmax = 0.0.
C17_NoLDRGivesZero ==
    (pc = "got_moments" /\ ~settings_LDR) =>
        \A k \in DOMAIN moments : IsZero(moments[k].ldr) /\ IsZero(moments[k].ldrmax)

\* Whatever the setting, ldr of a node is NaN or a non-zero ratio, and the
\* spectrum handed to tree_from_spectrum has the key 'specZcx'.
C17_LdrNeverZero ==
    (pc = "got_moments") =>
        /\ "specZcx" \in DOMAIN spectrum
        /\ \A k \in DOMAIN moments : ~IsZero(moments[k].ldr)

\* A tree of three nodes was produced with 'LDR?' disabled.
C17_Reached ==
    /\ pc = "got_moments"
    /\ ~settings_LDR
    /\ Cardinality(DOMAIN moments) = 3

\* The maximal runs of at least two consecutive zero-based indices i with
\* array[i] > lthres, as pairs (first index, last index).
MaximalRuns(array, lthres) ==
    LET n        == Len(array)
        above(i) == i \in 0..(n - 1) /\ array[i + 1] > lthres
    IN  {<<a, b>> \in (0..(n - 1)) \X (0..(n - 1)) :
            /\ a < b
            /\ \A i \in a..b : above(i)
            /\ ~above(a - 1)
            /\ ~above(b + 1)}

\* tree_from_spectrum is past its peak detection.
Detected == pc \in {"noise", "minima", "assemble", "saved", "done", "reload_failed", "reload_no_mask",
                    "aborted"}

\* C18: detect_peak_simple followed by the single-bin filter returns, in
\* ascending order, exactly the pairs (min, max) of the maximal runs of
\* consecutive indices above the threshold that have at least two bins, and
\* the empty list when there is no such run.
C18_MaximalRuns ==
    Detected =>
        LET runs == MaximalRuns(masked_Z, noise_thres)
        IN  /\ {peak_ind[k] : k \in 1..Len(peak_ind)} = runs
            /\ Len(peak_ind) = Cardinality(runs)
            /\ \A k \in 1..(Len(peak_ind) - 1) : peak_ind[k][2] < peak_ind[k + 1][1]
            /\ (runs = {}) => peak_ind = << >>

\* Two runs were kept and a single-bin run between bins below the threshold
\* was dropped.
C18_Witness ==
    /\ pc = "noise"
    /\ Len(peak_ind) >= 2
    /\ Len(detect_peak_simple(masked_Z, noise_thres)) > Len(peak_ind)

\* The outer hull of a list of peaks.
Hull(pk) == <<pk[1][1], pk[Len(pk)][2]>>

\* The gap after peak k of the list: l_{k+1} - r_k.
Gap(pk, k) == pk[k + 1][1] - pk[k][2]

\* The pairs of the claim: the hulls of the two parts at the lowest index of
\* the largest gap, then the pairs of the left part, then those of the right.
RECURSIVE ExpectedPairs(_)
ExpectedPairs(pk) ==
    IF Len(pk) <= 1 THEN << >>
    ELSE LET k == CHOOSE k \in 1..(Len(pk) - 1) :
                     /\ \A j \in 1..(Len(pk) - 1) : Gap(pk, j) <= Gap(pk, k)
                     /\ \A j \in 1..(k - 1) : Gap(pk, j) < Gap(pk, k)
             left  == SubSeq(pk, 1, k)
             right == SubSeq(pk, k + 1, Len(pk))
         IN  << <<Hull(left), Hull(right)>> >> \o ExpectedPairs(left) \o ExpectedPairs(right)

\* C19: for an ascending list of n >= 1 disjoint peaks peak_pairs_to_call
\* yields exactly n - 1 pairs in pre-order, each the outer hulls of the two
\* parts of a list split at the lowest index of its largest gap; a list of one
\* peak yields nothing.  The pairs still to be inserted are the rest of them.
C19_PairsInPreorder ==
    (Detected /\ peak_ind # << >>) =>
        LET yielded == peak_pairs_to_call(peak_ind)
        IN  /\ yielded = ExpectedPairs(peak_ind)
            /\ Len(yielded) = Len(peak_ind) - 1
            /\ (Len(peak_ind) = 1) => yielded = << >>
            /\ Len(pairs) <= Len(yielded)
            /\ pairs = SubSeq(yielded, Len(yielded) - Len(pairs) + 1, Len(yielded))

\* Three or more peaks whose largest gap occurs twice, the first pair already
\* inserted.
C19_Witness ==
    /\ pc = "noise"
    /\ Len(peak_ind) >= 3
    /\ Len(pairs) = Len(peak_ind) - 2
    /\ \E j, k \in 1..(Len(peak_ind) - 1) :
          /\ j < k
          /\ Gap(peak_ind, j) = Gap(peak_ind, k)
          /\ \A i \in 1..(Len(peak_ind) - 1) : Gap(peak_ind, i) <= Gap(peak_ind, j)

\* sdiff of the claim at zero-based position p of the array handed to
\* get_minima; 0 outside 0..n-3.
Sdiff(p) ==
    LET a == minima_input
    IN  IF p \in 0..(Len(a) - 3)
        THEN sign(a[p + 3] - a[p + 2]) - sign(a[p + 2] - a[p + 1])
        ELSE 0

\* The array was handed to get_minima.
MinimaTaken == pc \in {"minima", "assemble", "saved", "done", "reload_failed", "reload_no_mask", "aborted"}
               /\ peak_ind # << >>

\* The (index, value) pairs are those of the bins in I, ascending by value.
ReportedAre(I) ==
    LET rep  == get_minima(minima_input)
        a    == minima_input
    IN  /\ {rep[k][1] : k \in 1..Len(rep)} = I
        /\ Len(rep) = Cardinality(I)
        /\ \A k \in 1..Len(rep) : rep[k][2] = a[rep[k][1] + 1]
        /\ \A k \in 1..(Len(rep) - 1) : rep[k][2] <= rep[k + 1][2]

\* C20 as stated: get_minima reports bin i if and only if sdiff equals 2 at
\* position i-1, or sdiff equals 1 at both position i-1 and position i; the
\* pairs are sorted ascending by value.
C20_MinimaAsStated ==
    MinimaTaken =>
        ReportedAre({i \in 0..(Len(minima_input) - 1) :
                        Sdiff(i - 1) = 2 \/ (Sdiff(i - 1) = 1 /\ Sdiff(i) = 1)})

\* C20 amended: get_minima reports bin i if and only if sdiff equals 2 at
\* position i-1, or sdiff equals 1 at both position i-2 and position i-1 (the
\* right bin of a flat bottom of two bins); the pairs are sorted ascending by
\* value.
C20_MinimaRightBin ==
    MinimaTaken =>
        ReportedAre({i \in 0..(Len(minima_input) - 1) :
                        Sdiff(i - 1) = 2 \/ (Sdiff(i - 2) = 1 /\ Sdiff(i - 1) = 1)})

\* A flat bottom of two bins above 1.1 * noise_thres was reported at its right
\* bin.
C20_Witness ==
    /\ MinimaTaken
    /\ \E i \in 1..(Len(minima_input) - 2) :
          /\ Sdiff(i - 2) = 1 /\ Sdiff(i - 1) = 1
          /\ gt_1p1(minima_input[i + 1], noise_thres)
          /\ \E k \in 1..Len(get_minima(minima_input)) :
                get_minima(minima_input)[k][1] = i

\* The pairs of children of node p, as they were appended: <<left, right>>.
ChildPairs(p) ==
    {<<p.children[2 * j - 1], p.children[2 * j]>> : j \in 1..(Len(p.children) \div 2)}

\* The children of a pair meet in one bin: they come from a local minimum.
FromMinimum(pr) == pr[1].bounds[2] = pr[2].bounds[1]

\* x > 1.1 * noise_thres
Above1p1(x) == 10 * x > 11 * noise_thres

\* C21: add_min is called only for minima strictly greater than
\* 1.1 * noise_thres, so in every built tree the threshold of the root and of
\* the children of a noise gap is exactly noise_thres and the threshold of the
\* children of a local minimum is the value of that minimum, strictly greater
\* than 1.1 * noise_thres.
C21_Thresholds ==
    Built =>
        /\ t.threshold = noise_thres
        /\ \A p \in NodesOf(t) : \A pr \in ChildPairs(p) :
              IF FromMinimum(pr)
              THEN /\ pr[1].threshold = minima_input[pr[1].bounds[2] + 1]
                   /\ pr[2].threshold = pr[1].threshold
                   /\ Above1p1(pr[1].threshold)
              ELSE /\ pr[1].threshold = noise_thres
                   /\ pr[2].threshold = noise_thres
        /\ \A n \in NodesOf(t) : n.threshold = noise_thres \/ Above1p1(n.threshold)
        /\ \A h \in 1..Len(hist) :
              hist[h].op = "min" => Above1p1(minima_input[hist[h].index + 1])

\* A built tree with the children of a noise gap and the children of a local
\* minimum, while a lower minimum of the spectrum was passed over.
C21_Witness ==
    /\ Built
    /\ \E p, q \in NodesOf(t) :
          /\ \E pr \in ChildPairs(p) : FromMinimum(pr)
          /\ \E pr \in ChildPairs(q) : ~FromMinimum(pr)
    /\ \E k \in 1..Len(get_minima(minima_input)) :
          ~Above1p1(get_minima(minima_input)[k][2])

\* get_tree_at has prepared the spectrum of the cell.
Prepared == pc \in {"tree_from_spectrum", "got_moments"}

\* The bins 1..n of the prepared spectrum.
Bins == 1..Len(spectrum.specZcx)

\* The bins that are valid in the co channel and in specLDR.
ValidBins == {i \in Bins : ~spectrum.specZ_mask[i] /\ ~spectrum.specLDR_mask[i]}

\* Zcx of bin i is below the minimum of Zcx over the valid bins times
\* z2lin(thres_factor_cx); no bin is below when there is no valid bin.
BelowValidMinimum(i) ==
    /\ ~spectrum.specZcx[i].nan
    /\ \E j \in ValidBins :
          /\ \A k \in ValidBins : spectrum.specZcx[j].num <= spectrum.specZcx[k].num
          /\ lt_thres_Zcx(spectrum.specZcx[i], spectrum.specZcx[j])

\* C22: in the prepared spectrum the final specZcx_mask marks every bin that
\* is marked in specZ_mask or in specLDR_mask, and every bin whose Zcx is
\* non-finite or below thres_Zcx, the minimum of Zcx over the valid bins times
\* the factor of thres_factor_cx.
C22_CxMaskAsStated ==
    Prepared =>
        \A i \in Bins :
            (\/ spectrum.specZ_mask[i]
             \/ spectrum.specLDR_mask[i]
             \/ spectrum.specZcx[i].nan
             \/ BelowValidMinimum(i)) => spectrum.specZcx_mask[i]

\* The final specZcx_mask marks every bin whose Zcx is NaN, and no other bin
\* when the Zcx of some bin is 0 (a bin with Z = 0 and LDR values that are
\* not NaN).
C22_CxMaskOfCode ==
    Prepared =>
        /\ \A i \in Bins : spectrum.specZcx[i].nan => spectrum.specZcx_mask[i]
        /\ (\E i \in Bins : ~spectrum.specZcx[i].nan /\ spectrum.specZcx[i].num = 0)
              => \A i \in Bins : spectrum.specZcx_mask[i] <=> spectrum.specZcx[i].nan

\* The bounds of node id k of the tree of the prepared spectrum.
BoundsOf(k) == tree_from_spectrum(spectrum)[k].bounds

\* The bins (one-based) of node id k that are valid in the final specZcx_mask.
ValidCxIn(k) ==
    {i \in (BoundsOf(k)[1] + 1)..(BoundsOf(k)[2] + 1) : ~spectrum.specZcx_mask[i]}

\* The sum of array over the bins in I.
RECURSIVE SumOver(_, _)
SumOver(array, I) ==
    IF I = {} THEN 0
    ELSE LET i == CHOOSE i \in I : TRUE IN array[i] + SumOver(array, I \ {i})

\* The sum of array over the bins of node id k.
SumIn(array, k) == SumOver(array, (BoundsOf(k)[1] + 1)..(BoundsOf(k)[2] + 1))

\* C23: calc_moments sets ldr of a node with bounds (l, r) to NaN when no bin
\* of [l, r] is valid in specZcx_mask, also when bins outside are valid; with
\* a valid bin in [l, r], ldr is sum(specZcx_validcx[l..r]) /
\* sum(specZ_validcx[l..r]), or NaN when that ratio is not finite or is zero.
C23_LdrOfNode ==
    (pc = "got_moments") =>
        \A k \in DOMAIN moments :
            LET a == SumIn(spectrum.specZcx_validcx, k)
                q == SumIn(spectrum.specZ_validcx, k)
            IN  IF ValidCxIn(k) = {} \/ q = 0 \/ 40 * a <= q \div 100000000
                THEN moments[k].ldr.nan
                ELSE /\ ~moments[k].ldr.nan
                     /\ moments[k].ldr.num = 40 * a
                     /\ moments[k].ldr.den = q

\* A tree of a spectrum averaged over two time steps, with a node without a
\* valid bin while bins outside it are valid, and a node with a ratio for ldr.
C23_Witness ==
    /\ pc = "got_moments"
    /\ ldr_call.temporal_average # NoAverage
    /\ spectrum.no_temp_avg = 2
    /\ \E k, j \in DOMAIN moments :
          /\ ValidCxIn(k) = {}
          /\ \E i \in Bins : ~spectrum.specZcx_mask[i]
          /\ moments[k].ldr.nan
          /\ ~moments[j].ldr.nan

\* The node reached from node by the child indices path (zero-based indices).
RECURSIVE NodeAt(_, _)
NodeAt(node, path) ==
    IF path = << >> THEN node
    ELSE NodeAt(node.children[Head(path) + 1], Tail(path))

\* path leads from node to a node of the tree.
RECURSIVE IsPath(_, _)
IsPath(node, path) ==
    \/ path = << >>
    \/ /\ Head(path) \in 0..(Len(node.children) - 1)
       /\ IsPath(node.children[Head(path) + 1], Tail(path))

\* a is a proper prefix of b, or a is below b at the first place they differ.
PreorderBefore(a, b) ==
    \/ Len(a) < Len(b) /\ SubSeq(b, 1, Len(a)) = a
    \/ \E i \in 1..Min2(Len(a), Len(b)) :
          /\ SubSeq(a, 1, i - 1) = SubSeq(b, 1, i - 1)
          /\ a[i] < b[i]

\* The number of nodes of the tree below and including node.
RECURSIVE CountNodes(_)
CountNodes(node) ==
    1 + SeqSum([i \in 1..Len(node.children) |-> CountNodes(node.children[i])])

\* The traversal is in pre-order and every element carries the bounds and the
\* threshold of the node that its coords, from the second element on, lead to.
PreorderOfTree(tr) ==
    /\ Len(tr) = CountNodes(t)
    /\ \A i \in 1..Len(tr) :
          /\ Len(tr[i].coords) >= 1
          /\ IsPath(t, Tail(tr[i].coords))
          /\ tr[i].bounds = NodeAt(t, Tail(tr[i].coords)).bounds
          /\ tr[i].thres = NodeAt(t, Tail(tr[i].coords)).threshold
    /\ \A i, j \in 1..Len(tr) : i < j => PreorderBefore(tr[i].coords, tr[j].coords)

\* C24 as stated: traverse yields the nodes in pre-order, a node before its
\* children and the children in stored order; the root's coords is the empty
\* list and each child's coords is its parent's coords with its child index,
\* 0 or 1, appended.
C24_TraverseAsStated ==
    Built =>
        LET tr == traverse(t, <<0>>)
        IN  /\ tr[1].coords = << >>
            /\ \A i \in 1..Len(tr) : \A c \in 1..Len(tr[i].coords) :
                  tr[i].coords[c] \in {0, 1}
            /\ \A i, j \in 1..Len(tr) : i < j => PreorderBefore(tr[i].coords, tr[j].coords)

\* C24 amended: traverse yields the nodes in pre-order, a node before its
\* children and the children in stored order; the root's coords is the list
\* [0] it is called with and each child's coords is its parent's coords with
\* the child's position among the children of its parent appended.
C24_TraversePreorder ==
    Built =>
        LET tr == traverse(t, <<0>>)
        IN  /\ tr[1].coords = <<0>>
            /\ PreorderOfTree(tr)

\* A tree of at least five nodes on three levels was traversed.
C24_Witness ==
    /\ Built
    /\ Len(traverse(t, <<0>>)) >= 5
    /\ \E i \in 1..Len(traverse(t, <<0>>)) : Len(traverse(t, <<0>>)[i].coords) = 3

\* tree_from_spectrum has returned and assemble_time_height has written the
\* cell.
Saved == pc \in {"saved", "done", "reload_failed", "reload_no_mask"}

\* C25: coords_to_id gives distinct nodes of a built tree distinct ids, so
\* the dictionary has one entry per node and no_nodes is the number of nodes
\* of the tree; a child with child index c of a node with id p has id
\* 2 * p + 1 + c.
C25_DistinctIds ==
    Traversed =>
        LET tr == traverse(t, <<0>>)
        IN  /\ \A i, j \in 1..Len(tr) :
                  i # j => full_tree_id(tr[i].coords) # full_tree_id(tr[j].coords)
            /\ Cardinality(DOMAIN traversed) = CountNodes(t)
            /\ Saved => no_nodes = CountNodes(t)
            /\ \A i \in 2..Len(tr) :
                  LET crd == tr[i].coords
                  IN  full_tree_id(crd) = 2 * full_tree_id(SubSeq(crd, 1, Len(crd) - 1))
                                          + 1 + crd[Len(crd)]

\* C25 holds of every built tree whose nodes have no or two children.
C25_WhenBinary == (Traversed /\ Binary) => C25_DistinctIds

\* C26: thresholds never decrease from parent to child, and the children of
\* a node carry the same threshold.
C26_ThresholdsRise ==
    Built =>
        \A p \in NodesOf(t) :
            /\ \A i \in 1..Len(p.children) : p.children[i].threshold >= p.threshold
            /\ \A i, j \in 1..Len(p.children) :
                  p.children[i].threshold = p.children[j].threshold

\* Thresholds never decrease from parent to child, and the two children of a
\* pair carry the same threshold.
C26_PairsRise ==
    Built =>
        \A p \in NodesOf(t) :
            /\ \A i \in 1..Len(p.children) : p.children[i].threshold >= p.threshold
            /\ \A pr \in ChildPairs(p) : pr[1].threshold = pr[2].threshold

C26_WhenBinary == (Built /\ Binary) => C26_ThresholdsRise

\* The sums of moment() over the bins of bounds, the velocity of bin i taken
\* as i: sum(Z), sum(x * Z) and sum(x * x * Z).
S0(w, b) == SumOver(w, (b[1] + 1)..(b[2] + 1))

S1(w, b) == SumOver([i \in 1..Len(w) |-> i * w[i]], (b[1] + 1)..(b[2] + 1))

S2(w, b) == SumOver([i \in 1..Len(w) |-> i * i * w[i]], (b[1] + 1)..(b[2] + 1))

\* C27: for every node of a built tree the moment weights have at least two
\* non-zero bins inside the bounds, so their sum is positive, moment() does
\* not divide by zero and the width is positive (sum(Z) * sum(x^2 * Z) >
\* sum(x * Z)^2).
C27_TwoWeights ==
    Built =>
        \A n \in NodesOf(t) :
            LET w == moment_weights(n.threshold)
            IN  /\ Cardinality({i \in (n.bounds[1] + 1)..(n.bounds[2] + 1) : w[i] # 0}) >= 2
                /\ S0(w, n.bounds) > 0
                /\ S0(w, n.bounds) * S2(w, n.bounds) > S1(w, n.bounds) * S1(w, n.bounds)

\* A child of a local minimum with more than two bins, of which exactly two
\* carry a weight.
C27_Witness ==
    /\ Built
    /\ \E n \in NodesOf(t) :
          /\ n.threshold > noise_thres
          /\ n.bounds[2] - n.bounds[1] >= 2
          /\ Cardinality({i \in (n.bounds[1] + 1)..(n.bounds[2] + 1) :
                             moment_weights(n.threshold)[i] # 0}) = 2

\* C28: every traversed id k with 0 < k < max_no_nodes has the parent_id
\* (k - 1) div 2, which is smaller than k and written as well, and the reload
\* of the cell in 'peakTree' mode finds the parent of every node.
C28_ParentsWritten ==
    Saved =>
        /\ \A k \in DOMAIN traversed :
              (0 < k /\ k < max_no_nodes) =>
                  /\ traversed[k].parent_id = (k - 1) \div 2
                  /\ traversed[k].parent_id < k
                  /\ parent[traversed[k].parent_id] # MissingValue
                  /\ parent[k] = traversed[k].parent_id
        /\ pc # "reload_failed"

\* A cell with ids at and above max_no_nodes was written and reloaded: the
\* reloaded tree has the written ids, seven or more.
C28_Witness ==
    /\ pc = "done"
    /\ \E k \in DOMAIN traversed : k >= max_no_nodes
    /\ Cardinality(DOMAIN travtree) >= 7
    /\ DOMAIN travtree = {k \in DOMAIN traversed : k < max_no_nodes}

=============================================================================
